---- MODULE Spec2Model ----
(***************************************************************************)
(* A model of secure-channel: the lazy singleton lifecycle of KeyExchange  *)
(* and Signature (getInstance / init), the KeyExchange handshake           *)
(* (generateKey / encrypt / decrypt), the Signature methods and the        *)
(* conversion helpers (base64, uint64).  The cryptography provider         *)
(* (SubtleCrypto) is modelled symbolically: a key is a term, and two keys  *)
(* are the same key exactly when their terms are equal.                    *)
(***************************************************************************)
EXTENDS Integers, Sequences, FiniteSets, TLC

\* ------------------------------------------------------------------ bounds

\* getInstance() callers of one component in one behaviour
MaxCallers == 3

\* generateKey() calls in one behaviour
MaxHandshakes == 3

\* generateKey() calls on the one instance whose session is explored
MaxOverlap == 2

\* encrypt() calls in one behaviour where their envelopes are compared
MaxEncrypts == 2

\* initializeServerKey() / updateServerKey() calls in one behaviour
MaxKeyCalls == 2

\* ------------------------------------------------------- singleton lifecycle

VARIABLES
    cls,          \* the component this behaviour is about: KeyExchange or Signature
    env,          \* the host: "browser" (globalThis.crypto.subtle), "node" (import('crypto')), "none"
    instance,     \* static instance: 0 is null, else an index of objs
    initialized,  \* static initialized
    objs,         \* every object constructed so far: [subtle, keypair]; keypair 0 is null
    callers,      \* each getInstance() call: where it is suspended and what it returned
    genKeyCalls,  \* provider generateKey calls made by init so far
    acquired      \* capability handles acquired (this.subtle assigned) so far

lifeVars == <<cls, env, instance, initialized, objs, callers, genKeyCalls, acquired>>

VARIABLES
    kx,           \* each party's KeyExchange instance: [subtle, keypair, txKey, rxKey]
    hs,           \* the generateKey calls: where each is suspended, its locals, its outcome
    x25519Calls,  \* provider generateKey({name: 'X25519'}) calls so far
    enc,          \* the encrypt call a behaviour observes
    dec,          \* the decrypt call a behaviour observes
    sent          \* the envelopes the encrypt calls have returned, in order

kxVars == <<kx, hs, x25519Calls, enc, dec, sent>>

VARIABLES
    sig,          \* the Signature instance: [subtle, keypair, serverPublicKey]
    keyCalls,     \* the initializeServerKey / updateServerKey calls
    op,           \* the sign / getPublicKey / verify / verifyWithKey call a behaviour observes
    held          \* what the caller keeps of the calls that returned: a signature, a public key text

sigVars == <<sig, keyCalls, op, held>>

VARIABLES
    keyOps,       \* the provider's generateKey / importKey / exportKey calls made so far
    codec         \* the call of a conversion helper a behaviour observes

Callers == 1..MaxCallers

Classes == {"KeyExchange", "Signature"}

Envs == {"browser", "node", "none"}

\* A caller that has not called yet.  mine: the object this call constructed;
\* keyNo: the ordinal of its provider generateKey call; early: the call was
\* issued before any getInstance() call had resolved.
IdleCaller == [pc |-> "idle", mine |-> 0, keyNo |-> 0, result |-> 0, err |-> "", early |-> FALSE]

\* new KeyExchange() / new Signature(): every field null.
NewObject == [subtle |-> FALSE, keypair |-> 0]

Resolved(c) == callers[c].pc = "resolved"

Rejected(c) == callers[c].pc = "rejected"

AnyResolved == \E c \in Callers : Resolved(c)

\* What getInstance returns once its await is over: the static slot, as it is now.
ReturnedInstance_own(c) == callers[c].mine

ReturnedInstance(c) == instance

\* A key-management call on the provider.  extractable: the argument of
\* generateKey / importKey; half: the member of the local keypair handed to
\* exportKey ("" for the other two methods).
KeyOp(method, alg, extractable, half) ==
    [method |-> method, alg |-> alg, extractable |-> extractable, half |-> half]

\* Signature.init: generateKey({name: 'Ed25519'}, false, ['sign', 'verify']).
GenerateEd25519Op == KeyOp("generateKey", "Ed25519", FALSE, "")

\* initializeServerKey / verifyWithKey: importKey('raw', bytes, {name: 'Ed25519'}, false, ['verify']).
ImportEd25519Op == KeyOp("importKey", "Ed25519", FALSE, "")

\* getPublicKey: exportKey('raw', this.keypair.publicKey).
ExportEd25519Op == KeyOp("exportKey", "Ed25519", FALSE, "publicKey")

\* KeyExchange.generateKey: generateKey({name: 'X25519'}, false, ['deriveKey', 'deriveBits']).
GenerateX25519Op == KeyOp("generateKey", "X25519", FALSE, "")

\* exportKey on the private half of the keypair.
ExportX25519Op_private == KeyOp("exportKey", "X25519", FALSE, "privateKey")

\* KeyExchange.generateKey: exportKey('raw', this.keypair.publicKey).
ExportX25519Op == KeyOp("exportKey", "X25519", FALSE, "publicKey")

\* hkdf: importKey('raw', sharedSecret, 'HKDF', false, ['deriveBits', 'deriveKey']).
ImportHkdfOp == KeyOp("importKey", "HKDF", FALSE, "")

\* importAes: importKey("raw", raw, {name: 'AES-GCM', length: 256}, false, ['encrypt', 'decrypt']).
ImportAesOp == KeyOp("importKey", "AES-GCM", FALSE, "")

\* this.subtle = ... on object o.
SubtleSet(os, o) == [os EXCEPT ![o].subtle = TRUE]

\* init() after this.subtle is set: KeyExchange.init returns; Signature.init
\* calls this.subtle.generateKey and suspends on it.
PcAfterSubtle == IF cls = "Signature" THEN "genkey" ELSE "initDone"

\* init() that calls the provider's generateKey in KeyExchange as well.
GenKeyCallsAfterSubtle_always == genKeyCalls + 1

GenKeyCallsAfterSubtle == IF cls = "Signature" THEN genKeyCalls + 1 ELSE genKeyCalls

KeyOpsAfterSubtle == IF cls = "Signature" THEN keyOps \cup {GenerateEd25519Op} ELSE keyOps

\* getInstance() that constructs another object although initialized is set.
GetInstanceFast_construct(c) ==
    /\ callers[c].pc = "idle"
    /\ initialized
    /\ objs' = Append(objs, [subtle |-> TRUE, keypair |-> 0])
    /\ instance' = Len(objs) + 1
    /\ callers' = [callers EXCEPT ![c].pc = "resolved", ![c].result = Len(objs) + 1,
                                  ![c].early = ~AnyResolved]
    /\ UNCHANGED <<cls, env, initialized, genKeyCalls, acquired>>
    /\ UNCHANGED <<kxVars, sigVars, keyOps, codec>>

\* getInstance() when initialized is already set: return the slot.
GetInstanceFast(c) ==
    /\ callers[c].pc = "idle"
    /\ initialized
    /\ callers' = [callers EXCEPT ![c].pc = "resolved", ![c].result = instance,
                                  ![c].early = ~AnyResolved]
    /\ UNCHANGED <<cls, env, instance, initialized, objs, genKeyCalls, acquired>>
    /\ UNCHANGED <<kxVars, sigVars, keyOps, codec>>

\* getInstance() when initialized is not set, up to its first suspension:
\* construct, store in the static slot, run init() up to its first await.
GetInstanceCall(c) ==
    /\ callers[c].pc = "idle"
    /\ ~initialized
    /\ LET o  == Len(objs) + 1
           os == Append(objs, NewObject)
       IN  /\ instance' = o
           /\ IF env = "browser"
                THEN /\ objs' = SubtleSet(os, o)
                     /\ acquired' = acquired + 1
                     /\ genKeyCalls' = GenKeyCallsAfterSubtle
                     /\ keyOps' = KeyOpsAfterSubtle
                     /\ callers' = [callers EXCEPT ![c].pc = PcAfterSubtle, ![c].mine = o,
                                                   ![c].keyNo = GenKeyCallsAfterSubtle,
                                                   ![c].early = ~AnyResolved]
                ELSE /\ objs' = os
                     /\ callers' = [callers EXCEPT ![c].pc = "import", ![c].mine = o,
                                                   ![c].early = ~AnyResolved]
                     /\ UNCHANGED <<acquired, genKeyCalls, keyOps>>
    /\ UNCHANGED <<cls, env, initialized>>
    /\ UNCHANGED <<kxVars, sigVars, codec>>

\* init() resumes from `await import('crypto')`: webcrypto.subtle, or the
\* final fallback throws and getInstance rejects.
ImportDone(c) ==
    /\ callers[c].pc = "import"
    /\ IF env = "node"
         THEN /\ objs' = SubtleSet(objs, callers[c].mine)
              /\ acquired' = acquired + 1
              /\ genKeyCalls' = GenKeyCallsAfterSubtle
              /\ keyOps' = KeyOpsAfterSubtle
              /\ callers' = [callers EXCEPT ![c].pc = PcAfterSubtle,
                                            ![c].keyNo = GenKeyCallsAfterSubtle]
         ELSE /\ callers' = [callers EXCEPT ![c].pc = "rejected",
                                            ![c].err = "WebCryptoUnavailable"]
              /\ UNCHANGED <<objs, acquired, genKeyCalls, keyOps>>
    /\ UNCHANGED <<cls, env, instance, initialized>>
    /\ UNCHANGED <<kxVars, sigVars, codec>>

\* Signature.init resumes from `await this.subtle.generateKey(Ed25519)`:
\* this.keypair is set and init returns, or the provider's error propagates.
GenKeyDone(c) ==
    /\ callers[c].pc = "genkey"
    /\ \E ok \in BOOLEAN :
         IF ok
           THEN /\ objs' = [objs EXCEPT ![callers[c].mine].keypair = callers[c].keyNo]
                /\ callers' = [callers EXCEPT ![c].pc = "initDone"]
           ELSE /\ callers' = [callers EXCEPT ![c].pc = "rejected", ![c].err = "ProviderError"]
                /\ UNCHANGED objs
    /\ UNCHANGED <<cls, env, instance, initialized, genKeyCalls, acquired>>
    /\ UNCHANGED <<kxVars, sigVars, keyOps, codec>>

\* getInstance() resumes from `await this.instance.init()`.
GetInstanceResume(c) ==
    /\ callers[c].pc = "initDone"
    /\ initialized' = TRUE
    /\ callers' = [callers EXCEPT ![c].pc = "resolved", ![c].result = ReturnedInstance(c)]
    /\ UNCHANGED <<cls, env, instance, objs, genKeyCalls, acquired>>
    /\ UNCHANGED <<kxVars, sigVars, keyOps, codec>>

\* The guard of sign() and getPublicKey() on object o.
SignatureNotInitialized(o) == ~objs[o].subtle \/ objs[o].keypair = 0

\* The guard of KeyExchange.generateKey() on object o.
CryptoNotInitialized(o) == ~objs[o].subtle

LifeInit ==
    /\ cls \in Classes
    /\ env \in Envs
    /\ instance = 0
    /\ initialized = FALSE
    /\ objs = <<>>
    /\ callers = [c \in Callers |-> IdleCaller]
    /\ genKeyCalls = 0
    /\ acquired = 0

LifeNext ==
    \E c \in Callers :
        \/ GetInstanceFast(c)
        \/ GetInstanceCall(c)
        \/ ImportDone(c)
        \/ GenKeyDone(c)
        \/ GetInstanceResume(c)

\* ------------------------------------------------------------ codec (helpers)

\* A JavaScript string is the sequence of its UTF-16 code units; a Uint8Array
\* is the sequence of its bytes.

\* The i-th character (0..63) of the standard base64 alphabet, as a code unit.
B64Char(i) ==
    IF i < 26 THEN 65 + i
    ELSE IF i < 52 THEN 97 + (i - 26)
    ELSE IF i < 62 THEN 48 + (i - 52)
    ELSE IF i = 62 THEN 43
    ELSE 47

\* '='
B64Pad == 61

\* btoa(...) / Buffer.toString("base64"): three bytes to four characters,
\* the last group padded.
RECURSIVE ByteArrayToBase64(_)
ByteArrayToBase64(bytes) ==
    IF Len(bytes) = 0 THEN <<>>
    ELSE IF Len(bytes) = 1 THEN
        <<B64Char(bytes[1] \div 4), B64Char((bytes[1] % 4) * 16), B64Pad, B64Pad>>
    ELSE IF Len(bytes) = 2 THEN
        <<B64Char(bytes[1] \div 4),
          B64Char(((bytes[1] % 4) * 16) + (bytes[2] \div 16)),
          B64Char((bytes[2] % 16) * 4), B64Pad>>
    ELSE
        <<B64Char(bytes[1] \div 4),
          B64Char(((bytes[1] % 4) * 16) + (bytes[2] \div 16)),
          B64Char(((bytes[2] % 16) * 4) + (bytes[3] \div 64)),
          B64Char(bytes[3] % 64)>>
        \o ByteArrayToBase64(SubSeq(bytes, 4, Len(bytes)))

\* The place of a character in the URL-safe alphabet ('-' and '_' for the
\* last two); 0 for a character that is not in it.
B64Index_url(c) ==
    IF c = 45 THEN 62
    ELSE IF c = 95 THEN 63
    ELSE IF \E i \in 0..61 : B64Char(i) = c THEN CHOOSE i \in 0..61 : B64Char(i) = c
    ELSE 0

\* The place (0..63) of a base64 character in the alphabet.
B64Index(c) == CHOOSE i \in 0..63 : B64Char(i) = c

\* atob(...) / Buffer.from(base64, "base64") on padded base64 text: four
\* characters to three bytes, fewer where the group is padded; the empty
\* string gives the empty array.
RECURSIVE Base64StringToByteArr(_)
Base64StringToByteArr(base64) ==
    IF Len(base64) = 0 THEN <<>>
    ELSE LET a == B64Index(base64[1])
             b == B64Index(base64[2])
             rest == Base64StringToByteArr(SubSeq(base64, 5, Len(base64)))
         IN  IF base64[3] = B64Pad
               THEN <<(a * 4) + (b \div 16)>>
             ELSE IF base64[4] = B64Pad
               THEN <<(a * 4) + (b \div 16),
                      ((b % 16) * 16) + (B64Index(base64[3]) \div 4)>>
             ELSE <<(a * 4) + (b \div 16),
                    ((b % 16) * 16) + (B64Index(base64[3]) \div 4),
                    ((B64Index(base64[3]) % 4) * 64) + B64Index(base64[4])>> \o rest

\* new TextEncoder().encode(str): UTF-8 of each code unit (no surrogate pairs
\* occur in the strings the component builds).
RECURSIVE TextEncode(_)
TextEncode(str) ==
    IF Len(str) = 0 THEN <<>>
    ELSE LET c == str[1]
             b == IF c < 128 THEN <<c>>
                  ELSE IF c < 2048 THEN <<192 + (c \div 64), 128 + (c % 64)>>
                  ELSE <<224 + (c \div 4096), 128 + ((c \div 64) % 64), 128 + (c % 64)>>
         IN  b \o TextEncode(Tail(str))

\* 'client-to-server'
ClientToServer == <<99,108,105,101,110,116,45,116,111,45,115,101,114,118,101,114>>

\* 'server-to-client'
ServerToClient == <<115,101,114,118,101,114,45,116,111,45,99,108,105,101,110,116>>

\* ------------------------------------------------- provider (SubtleCrypto)

\* Length in bytes of a raw X25519 public key.
PublicKeyLen == 32

\* Length in bytes of the HKDF salt, new Uint8Array(32).
SaltLen == 32

\* Length in bytes of the AES-GCM nonce.
NonceLen == 12

\* A null key slot.
NullKey == [kind |-> "null"]

\* exportKey('raw', publicKey of keypair k): distinct keypairs export
\* distinct bytes.
ExportRaw(k) == [i \in 1..PublicKeyLen |-> IF i = PublicKeyLen THEN k ELSE 0]

\* deriveBits({name: 'X25519', public: r}, private key of k, 256): the
\* Diffie-Hellman secret of the keypairs k and r, the same from either side.
DeriveX25519(k, r) == [kind |-> "dh", pair |-> {k, r}]

\* hkdf(): importKey(raw secret, 'HKDF') then deriveBits(HKDF/SHA-256, salt,
\* info): equal outputs exactly for equal secret, salt and info.
DeriveHkdf(secret, info, salt) == [kind |-> "hkdf", secret |-> secret, info |-> info, salt |-> salt]

\* importAes(): importKey('raw', raw, AES-GCM 256).
ImportAesKey(raw) == [kind |-> "aes", raw |-> raw]

\* encrypt({name: 'AES-GCM', iv}, key, data).
AesGcmEncrypt(key, iv, data) == [kind |-> "ct", key |-> key, iv |-> iv, data |-> data]

\* decrypt({name: 'AES-GCM', iv}, key, ct) authenticates exactly when key
\* and nonce are those of the encryption.
AesGcmAuthentic(key, iv, ct) == ct.kind = "ct" /\ ct.key = key /\ ct.iv = iv

\* hkdf's default salt parameter.
Salt == [i \in 1..SaltLen |-> 0]

\* --------------------------------------------------------------- KeyExchange

Parties == {"A", "B"}

Handshakes == 1..MaxHandshakes

\* A public key that belongs to neither party's instance (the server's).
ServerKey == 255

\* A KeyExchange object as the constructor leaves it, with subtle as init()
\* has or has not yet set it.  keypair 0 is null.
NewKeyExchange(subtle) == [subtle |-> subtle, keypair |-> 0, txKey |-> NullKey, rxKey |-> NullKey]

\* A generateKey call not yet issued.  keyNo: the ordinal of its provider
\* generateKey call; kp: the keypair that call resolved to; priv: the
\* private key handed to deriveBits; txSet: the call has assigned
\* this.txKey; doneAt: its place in the order of completion.
IdleHandshake ==
    [pc |-> "idle", party |-> "A", remote |-> 0, keyNo |-> 0, kp |-> 0,
     publicKxKey |-> <<>>, priv |-> 0, sharedSecret |-> NullKey,
     txSet |-> FALSE, doneAt |-> 0, err |-> ""]

Done(h) == hs[h].pc = "done"

InFlight(h) == hs[h].pc \in {"gen", "export", "tx", "rx"}

\* generateKey calls that have resolved so far.
DoneCount == Cardinality({h \in Handshakes : Done(h)})

\* Some generateKey call on p's instance has completed successfully.
Keyed(p) == \E h \in Handshakes : hs[h].party = p /\ Done(h)

\* Public keys the caller on party p can hold as the remote CryptoKey: the
\* server's, and those another party's completed generateKey calls returned.
RemoteKeys(p) ==
    {ServerKey} \cup {hs[h].kp : h \in {g \in Handshakes : Done(g) /\ hs[g].party # p}}

AllRemoteKeys == UNION {RemoteKeys(p) : p \in Parties}

\* The private key passed to deriveBits: this.keypair.privateKey, read when
\* the call is made.
PrivateKeyForDh_own(h) == hs[h].kp

PrivateKeyForDh(h) == kx[hs[h].party].keypair

\* The info parameter of the two hkdf() calls.
TxInfo(publicKxKey) == TextEncode(ClientToServer \o publicKxKey)

RxInfo(publicKxKey) == TextEncode(ServerToClient \o publicKxKey)

\* The key the call stores in this.txKey / this.rxKey.
DerivedTx(h) == ImportAesKey(DeriveHkdf(hs[h].sharedSecret, TxInfo(hs[h].publicKxKey), Salt))

DerivedRx(h) == ImportAesKey(DeriveHkdf(hs[h].sharedSecret, RxInfo(hs[h].publicKxKey), Salt))

\* generateKey that calls the provider's generateKey once more when a
\* promise of its first attempt has rejected.
ProviderFails_retry(h, made) ==
    /\ IF hs[h].keyNo = x25519Calls /\ x25519Calls = 1
         THEN /\ hs' = [hs EXCEPT ![h] = [IdleHandshake EXCEPT
                                            !.pc = "gen", !.party = hs[h].party,
                                            !.remote = hs[h].remote,
                                            !.keyNo = x25519Calls + 1]]
              /\ x25519Calls' = x25519Calls + 1
              /\ keyOps' = keyOps \cup made \cup {GenerateX25519Op}
         ELSE /\ hs' = [hs EXCEPT ![h] = [IdleHandshake EXCEPT
                                            !.pc = "failed", !.err = "ProviderError",
                                            !.party = hs[h].party, !.keyNo = hs[h].keyNo,
                                            !.kp = hs[h].kp, !.txSet = hs[h].txSet]]
              /\ keyOps' = keyOps \cup made
              /\ UNCHANGED x25519Calls
    /\ UNCHANGED <<kx, enc, dec, sent, lifeVars, sigVars, codec>>

\* generateKey that resets both session keys when a provider promise rejects.
ProviderFails_clears(h, made) ==
    /\ hs' = [hs EXCEPT ![h] = [IdleHandshake EXCEPT
                                   !.pc = "failed", !.err = "ProviderError",
                                   !.party = hs[h].party, !.keyNo = hs[h].keyNo,
                                   !.kp = hs[h].kp, !.txSet = hs[h].txSet]]
    /\ kx' = [kx EXCEPT ![hs[h].party].txKey = NullKey, ![hs[h].party].rxKey = NullKey]
    /\ keyOps' = keyOps \cup made
    /\ UNCHANGED <<x25519Calls, enc, dec, sent, lifeVars, sigVars, codec>>

\* A provider promise rejects: the error propagates out of generateKey and
\* the call's locals are gone.  made: the key-management calls the code made
\* between the previous resumption and the promise that rejected.
ProviderFails(h, made) ==
    /\ hs' = [hs EXCEPT ![h] = [IdleHandshake EXCEPT
                                   !.pc = "failed", !.err = "ProviderError",
                                   !.party = hs[h].party, !.keyNo = hs[h].keyNo,
                                   !.kp = hs[h].kp, !.txSet = hs[h].txSet]]
    /\ keyOps' = keyOps \cup made
    /\ UNCHANGED <<kx, x25519Calls, enc, dec, sent, lifeVars, sigVars, codec>>

\* generateKey that keeps the keypair of an earlier call on the instance.
GenerateKeyCall_cached(h, p, r) ==
    /\ hs[h].pc = "idle"
    /\ r \in RemoteKeys(p)
    /\ IF h = 1 THEN TRUE ELSE hs[h - 1].pc # "idle"
    /\ IF ~kx[p].subtle
         THEN /\ hs' = [hs EXCEPT ![h].pc = "rejected", ![h].party = p, ![h].remote = r,
                                  ![h].err = "CryptoNotInitialized"]
              /\ UNCHANGED <<x25519Calls, keyOps>>
         ELSE IF kx[p].keypair # 0
         THEN /\ hs' = [hs EXCEPT ![h].pc = "export", ![h].party = p, ![h].remote = r,
                                  ![h].kp = kx[p].keypair]
              /\ UNCHANGED x25519Calls
              /\ keyOps' = keyOps \cup {ExportX25519Op}
         ELSE /\ hs' = [hs EXCEPT ![h].pc = "gen", ![h].party = p, ![h].remote = r,
                                  ![h].keyNo = x25519Calls + 1]
              /\ x25519Calls' = x25519Calls + 1
              /\ keyOps' = keyOps \cup {GenerateX25519Op}
    /\ UNCHANGED <<kx, enc, dec, sent, lifeVars, sigVars, codec>>

\* generateKey that calls the provider without checking the capability handle.
GenerateKeyCall_unchecked(h, p, r) ==
    /\ hs[h].pc = "idle"
    /\ r \in RemoteKeys(p)
    /\ IF h = 1 THEN TRUE ELSE hs[h - 1].pc # "idle"
    /\ hs' = [hs EXCEPT ![h].pc = "gen", ![h].party = p, ![h].remote = r,
                        ![h].keyNo = x25519Calls + 1]
    /\ x25519Calls' = x25519Calls + 1
    /\ keyOps' = keyOps \cup {GenerateX25519Op}
    /\ UNCHANGED <<kx, enc, dec, sent, lifeVars, sigVars, codec>>

\* generateKey(serverPublicKey) up to its first await: the capability
\* check, then the provider's generateKey is called.
GenerateKeyCall(h, p, r) ==
    /\ hs[h].pc = "idle"
    /\ r \in RemoteKeys(p)
    /\ IF h = 1 THEN TRUE ELSE hs[h - 1].pc # "idle"
    /\ IF ~kx[p].subtle
         THEN /\ hs' = [hs EXCEPT ![h].pc = "rejected", ![h].party = p, ![h].remote = r,
                                  ![h].err = "CryptoNotInitialized"]
              /\ UNCHANGED <<x25519Calls, keyOps>>
         ELSE /\ hs' = [hs EXCEPT ![h].pc = "gen", ![h].party = p, ![h].remote = r,
                                  ![h].keyNo = x25519Calls + 1]
              /\ x25519Calls' = x25519Calls + 1
              /\ keyOps' = keyOps \cup {GenerateX25519Op}
    /\ UNCHANGED <<kx, enc, dec, sent, lifeVars, sigVars, codec>>

\* Resumes from generateKey: this.keypair = ...; exportKey is called on
\* this.keypair.publicKey.
GenerateKeyResume(h) ==
    /\ hs[h].pc = "gen"
    /\ \/ /\ kx' = [kx EXCEPT ![hs[h].party].keypair = hs[h].keyNo]
          /\ hs' = [hs EXCEPT ![h].pc = "export", ![h].kp = hs[h].keyNo]
          /\ keyOps' = keyOps \cup {ExportX25519Op}
          /\ UNCHANGED <<x25519Calls, enc, dec, sent, lifeVars, sigVars, codec>>
       \/ ProviderFails(h, {})

\* Resumes from exportKey: publicKxKey = byteArrayToBase64(raw); deriveBits
\* is called with serverPublicKey and this.keypair.privateKey.  sharedSecret
\* is what that call resolves to.
ExportResume(h) ==
    /\ hs[h].pc = "export"
    /\ \/ /\ hs' = [hs EXCEPT ![h].pc = "tx",
                              ![h].publicKxKey = ByteArrayToBase64(ExportRaw(hs[h].kp)),
                              ![h].priv = PrivateKeyForDh(h),
                              ![h].sharedSecret = DeriveX25519(PrivateKeyForDh(h), hs[h].remote)]
          /\ UNCHANGED <<kx, x25519Calls, enc, dec, sent, lifeVars, sigVars, keyOps, codec>>
       \/ ProviderFails(h, {})

\* Resumes from the awaits of deriveBits (line 50), hkdf() and importAes()
\* for the TX key, which touch no field of the instance in between (four
\* provider promises, any of which may reject: deriveBits, hkdf's importKey
\* and deriveBits, importAes's importKey): this.txKey = ...; hkdf() for the
\* RX key is called.
TxKeyResume(h) ==
    /\ hs[h].pc = "tx"
    /\ \/ /\ kx' = [kx EXCEPT ![hs[h].party].txKey = DerivedTx(h)]
          /\ hs' = [hs EXCEPT ![h].pc = "rx", ![h].txSet = TRUE]
          /\ keyOps' = keyOps \cup {ImportHkdfOp, ImportAesOp}
          /\ UNCHANGED <<x25519Calls, enc, dec, sent, lifeVars, sigVars, codec>>
       \/ \E made \in {{}, {ImportHkdfOp}, {ImportHkdfOp, ImportAesOp}} : ProviderFails(h, made)

\* Resumes from the awaits of hkdf() and importAes() for the RX key (three
\* provider promises): this.rxKey = ...; return publicKxKey.
RxKeyResume(h) ==
    /\ hs[h].pc = "rx"
    /\ \/ /\ kx' = [kx EXCEPT ![hs[h].party].rxKey = DerivedRx(h)]
          /\ hs' = [hs EXCEPT ![h].pc = "done", ![h].doneAt = DoneCount + 1]
          /\ keyOps' = keyOps \cup {ImportAesOp}
          /\ UNCHANGED <<x25519Calls, enc, dec, sent, lifeVars, sigVars, codec>>
       \/ \E made \in {{}, {ImportAesOp}} : ProviderFails(h, made)

\* init() of a returned instance resumes from `await import('crypto')` and
\* sets this.subtle.
SubtleArrives(p) ==
    /\ ~kx[p].subtle
    /\ kx' = [kx EXCEPT ![p].subtle = TRUE]
    /\ UNCHANGED <<hs, x25519Calls, enc, dec, sent, lifeVars, sigVars, keyOps, codec>>

\* The steps of the generateKey calls in the slots hh on the parties ps.
HandshakeNext(ps, hh) ==
    \/ \E h \in hh, p \in ps, r \in AllRemoteKeys : GenerateKeyCall(h, p, r)
    \/ \E h \in hh : GenerateKeyResume(h)
    \/ \E h \in hh : ExportResume(h)
    \/ \E h \in hh : TxKeyResume(h)
    \/ \E h \in hh : RxKeyResume(h)

\* The instances getInstance() returned: subtle is set, except that on the
\* parties ps init() may still be awaiting import('crypto').
KxInit(ps) ==
    /\ kx \in [Parties -> {NewKeyExchange(b) : b \in BOOLEAN}]
    /\ \A p \in Parties \ ps : kx[p].subtle
    /\ hs = [h \in Handshakes |-> IdleHandshake]
    /\ x25519Calls = 0
    /\ sent = <<>>

\* ------------------------------------------------------- encrypt / decrypt

\* Inputs of encrypt: a string ('h' + e-acute) and a byte array.
Plaintexts == {[str |-> TRUE, val |-> <<104, 233>>], [str |-> FALSE, val |-> <<1, 2, 3>>]}

\* typeof plaintext === 'string' ? new TextEncoder().encode(plaintext) : plaintext
PlainBytes(pt) == IF pt.str THEN TextEncode(pt.val) ELSE pt.val

\* generateRandomBytes(12): the random source may return any value; seed
\* names which of two.
RandomBytes(seed) == [i \in 1..NonceLen |-> seed]

Seeds == {0, 1}

\* Bytes that no key produced: new Uint8Array(32).
GarbageCiphertext == [kind |-> "garbage"]

\* The encrypt call: its plaintext argument, the nonce drawn (iv) and which
\* value the random source returned to this call (seed), the key handed to
\* subtle.encrypt; keyed: a generateKey call had completed on the instance
\* when encrypt was called.
IdleEncrypt ==
    [pc |-> "idle", party |-> "A", plaintext |-> [str |-> FALSE, val |-> <<>>],
     iv |-> <<>>, seed |-> 0, key |-> NullKey, err |-> "", keyed |-> FALSE]

\* The decrypt call: input names its arguments ("envelope": what the
\* encrypt call returned, "garbage": bytes no key produced, "peer": a message
\* of the remote party that holds the RX key of the generateKey call `from`,
\* "tampered": such a message with a bit flipped, "wrongNonce": such a
\* message with another nonce), key is the key handed to subtle.decrypt,
\* called: subtle.decrypt was called.
IdleDecrypt ==
    [pc |-> "idle", party |-> "A", input |-> "garbage", from |-> 0, key |-> NullKey,
     out |-> <<>>, err |-> "", keyed |-> FALSE, called |-> FALSE]

Settled(call) == call.pc \in {"idle", "resolved", "rejected"}

\* The first guard of encrypt / of decrypt.
NoEncryptionKey(p) == kx[p].txKey = NullKey

NoDecryptionKey_tx(p) == kx[p].txKey = NullKey

NoDecryptionKey(p) == kx[p].rxKey = NullKey

\* encrypt(plaintext) up to its first await (generateRandomBytes).  keyed
\* records whether a generateKey call had completed when encrypt was called.
EncryptStart(p, pt) ==
    /\ enc' = [IdleEncrypt EXCEPT
                 !.party = p, !.plaintext = pt, !.keyed = Keyed(p),
                 !.pc = IF NoEncryptionKey(p) \/ ~kx[p].subtle THEN "rejected" ELSE "rand",
                 !.err = IF NoEncryptionKey(p) THEN "NoEncryptionKey"
                         ELSE IF ~kx[p].subtle THEN "CryptoNotInitialized" ELSE ""]
    /\ UNCHANGED <<kx, hs, x25519Calls, dec, sent, lifeVars, sigVars, keyOps, codec>>

\* The first encrypt call of a behaviour.
EncryptCall(p, pt) ==
    /\ enc.pc = "idle"
    /\ Settled(dec)
    /\ EncryptStart(p, pt)

\* A further encrypt call, issued once the previous one has returned.
EncryptAgain(p, pt) ==
    /\ enc.pc = "resolved"
    /\ Len(sent) < MaxEncrypts
    /\ EncryptStart(p, pt)

\* encrypt that takes the nonce of the previous envelope when there is one.
EncryptRandom_reuse(seed) ==
    /\ enc.pc = "rand"
    /\ enc' = [enc EXCEPT !.pc = "enc", !.seed = seed, !.key = kx[enc.party].txKey,
                          !.iv = IF sent = <<>> THEN RandomBytes(seed)
                                 ELSE sent[Len(sent)].nonce]
    /\ UNCHANGED <<kx, hs, x25519Calls, dec, sent, lifeVars, sigVars, keyOps, codec>>

\* Resumes from generateRandomBytes: subtle.encrypt is called with the
\* nonce and this.txKey as it is now.
EncryptRandom(seed) ==
    /\ enc.pc = "rand"
    /\ enc' = [enc EXCEPT !.pc = "enc", !.seed = seed, !.iv = RandomBytes(seed),
                          !.key = kx[enc.party].txKey]
    /\ UNCHANGED <<kx, hs, x25519Calls, dec, sent, lifeVars, sigVars, keyOps, codec>>

\* The ciphertext subtle.encrypt resolves to.
Encrypted == AesGcmEncrypt(enc.key, enc.iv, PlainBytes(enc.plaintext))

\* Resumes from subtle.encrypt: return {ciphertext: Encrypted, nonce: iv}.
\* seed is not part of the envelope: it records the random source's answer.
EncryptResume ==
    /\ enc.pc = "enc"
    /\ enc' = [enc EXCEPT !.pc = "resolved"]
    /\ sent' = Append(sent, [ciphertext |-> Encrypted, nonce |-> enc.iv, seed |-> enc.seed])
    /\ UNCHANGED <<kx, hs, x25519Calls, dec, lifeVars, sigVars, keyOps, codec>>

\* What a caller can pass to decrypt: the envelope the encrypt call
\* returned, or bytes no key produced with a zero nonce.
DecryptInputs ==
    {[tag |-> "garbage", from |-> 0]}
        \cup (IF enc.pc = "resolved" THEN {[tag |-> "envelope", from |-> 0]} ELSE {})

\* The bytes the remote party encrypts.
PeerData == <<7, 8>>

\* The message of the remote party that completed the handshake of the
\* generateKey call h: encrypted under the key this side derived as RX.
PeerMessage(h) == AesGcmEncrypt(DerivedRx(h), RandomBytes(1), PeerData)

\* A ciphertext with a bit flipped: no key authenticates it.
Tampered(ct) == [ct EXCEPT !.kind = "tampered"]

\* What a caller can pass to decrypt once the remote party sends: its
\* message, intact, tampered with, or with a nonce that is not the message's.
PeerInputs ==
    {[tag |-> "garbage", from |-> 0]}
        \cup {[tag |-> t, from |-> h] : t \in {"peer", "tampered", "wrongNonce"},
                                        h \in {g \in Handshakes : Done(g)}}

DecryptCiphertext ==
    CASE dec.input = "envelope" -> Encrypted
      [] dec.input = "garbage" -> GarbageCiphertext
      [] dec.input = "tampered" -> Tampered(PeerMessage(dec.from))
      [] OTHER -> PeerMessage(dec.from)

DecryptNonce ==
    CASE dec.input = "envelope" -> enc.iv
      [] dec.input \in {"peer", "tampered"} -> RandomBytes(1)
      [] OTHER -> RandomBytes(0)

\* decrypt(ciphertext, nonce) up to its await: the guards, then
\* subtle.decrypt is called with this.rxKey.
DecryptCall(p, in) ==
    /\ dec.pc = "idle"
    /\ Settled(enc)
    /\ dec' = [IdleDecrypt EXCEPT
                 !.party = p, !.input = in.tag, !.from = in.from, !.keyed = Keyed(p),
                 !.pc = IF NoDecryptionKey(p) \/ ~kx[p].subtle THEN "rejected" ELSE "dec",
                 !.err = IF NoDecryptionKey(p) THEN "NoDecryptionKey"
                         ELSE IF ~kx[p].subtle THEN "CryptoNotInitialized" ELSE "",
                 !.called = ~(NoDecryptionKey(p) \/ ~kx[p].subtle),
                 !.key = kx[p].rxKey]
    /\ UNCHANGED <<kx, hs, x25519Calls, enc, sent, lifeVars, sigVars, keyOps, codec>>

\* decrypt that releases the data of a ciphertext that does not authenticate.
DecryptResume_open ==
    /\ dec.pc = "dec"
    /\ IF DecryptCiphertext.kind \in {"ct", "tampered"}
         THEN dec' = [dec EXCEPT !.pc = "resolved", !.out = DecryptCiphertext.data]
         ELSE dec' = [dec EXCEPT !.pc = "rejected", !.err = "OperationError"]
    /\ UNCHANGED <<kx, hs, x25519Calls, enc, sent, lifeVars, sigVars, keyOps, codec>>

\* Resumes from subtle.decrypt: the plaintext, or the provider's rejection.
DecryptResume ==
    /\ dec.pc = "dec"
    /\ IF AesGcmAuthentic(dec.key, DecryptNonce, DecryptCiphertext)
         THEN dec' = [dec EXCEPT !.pc = "resolved", !.out = DecryptCiphertext.data]
         ELSE dec' = [dec EXCEPT !.pc = "rejected", !.err = "OperationError"]
    /\ UNCHANGED <<kx, hs, x25519Calls, enc, sent, lifeVars, sigVars, keyOps, codec>>

EncDecNext(ps) ==
    \/ \E p \in ps, pt \in Plaintexts : EncryptCall(p, pt)
    \/ \E seed \in Seeds : EncryptRandom(seed)
    \/ EncryptResume
    \/ \E p \in ps, in \in DecryptInputs : DecryptCall(p, in)
    \/ DecryptResume

\* ------------------------------------------------------------------ Signature

KeyCalls == 1..MaxKeyCalls

\* The remote party's Ed25519 keys, before and after a rotation.
ServerSigningKeys == {201, 202}

\* A Signature object as getInstance() can return it: init() may still be
\* awaiting import('crypto') (subtle unset) or the provider's generateKey
\* (keypair 0, null).
NewSignature(subtle, keypair) ==
    [subtle |-> subtle, keypair |-> keypair, serverPublicKey |-> NullKey]

\* importKey('raw', bytes, {name: 'Ed25519'}, false, ['verify']): the
\* provider rejects bytes that are not a raw public key.
ImportAccepts(bytes) == Len(bytes) = PublicKeyLen

ImportEd25519(bytes) == [kind |-> "ed25519", raw |-> bytes]

\* sign('Ed25519', private key of keypair k, data).
SignEd25519(k, data) == [kind |-> "sig", key |-> k, data |-> data]

\* verify('Ed25519', key, signature, data): true exactly for a signature
\* made over these bytes with the private key of this public key.
VerifyEd25519(key, signature, data) ==
    /\ key.kind = "ed25519"
    /\ key.raw = ExportRaw(signature.key)
    /\ signature.data = data

\* The serverPublicKeyB64 arguments: the base64 text of each server key, and
\* the empty string.
ServerKeyTexts == {ByteArrayToBase64(ExportRaw(k)) : k \in ServerSigningKeys} \cup {<<>>}

\* An initializeServerKey / updateServerKey call not yet issued.  via: the
\* method the caller invoked; seen: the calls that had settled when this one
\* was issued.
IdleKeyCall ==
    [pc |-> "idle", via |-> "init", text |-> <<>>, bytes |-> <<>>, err |-> "", seen |-> {}]

KeySettled(c) == keyCalls[c].pc \in {"resolved", "rejected"}

SettledKeyCalls == {c \in KeyCalls : KeySettled(c)}

\* Some initializeServerKey call, direct or made by updateServerKey, has
\* completed successfully.
ServerKeyImported == \E c \in KeyCalls : keyCalls[c].pc \in {"outer", "resolved"}

\* initializeServerKey(text), called directly (via "init") or by
\* updateServerKey (via "update"), up to its await: the capability check,
\* the base64 decoding, then importKey is called.
InitializeServerKeyCall(c, text, via) ==
    /\ keyCalls[c].pc = "idle"
    /\ IF c = 1 THEN TRUE ELSE keyCalls[c - 1].pc # "idle"
    /\ keyCalls' = [keyCalls EXCEPT ![c] =
           [IdleKeyCall EXCEPT
              !.via = via, !.text = text, !.seen = SettledKeyCalls,
              !.pc = IF sig.subtle THEN "import" ELSE "rejected",
              !.err = IF sig.subtle THEN "" ELSE "CryptoNotInitialized",
              !.bytes = IF sig.subtle THEN Base64StringToByteArr(text) ELSE <<>>]]
    /\ keyOps' = IF sig.subtle THEN keyOps \cup {ImportEd25519Op} ELSE keyOps
    /\ UNCHANGED <<sig, op, held, codec, kxVars, lifeVars>>

\* initializeServerKey that keeps a key that is already stored.
ImportKeyResume_keep(c) ==
    /\ keyCalls[c].pc = "import"
    /\ IF ImportAccepts(keyCalls[c].bytes)
         THEN /\ sig' = IF sig.serverPublicKey = NullKey
                          THEN [sig EXCEPT !.serverPublicKey = ImportEd25519(keyCalls[c].bytes)]
                          ELSE sig
              /\ keyCalls' = [keyCalls EXCEPT
                     ![c].pc = IF keyCalls[c].via = "update" THEN "outer" ELSE "resolved"]
         ELSE /\ keyCalls' = [keyCalls EXCEPT ![c].pc = "rejected", ![c].err = "ImportError"]
              /\ UNCHANGED sig
    /\ UNCHANGED <<op, held, keyOps, codec, kxVars, lifeVars>>

\* initializeServerKey that drops the stored key when the import fails.
ImportKeyResume_clears(c) ==
    /\ keyCalls[c].pc = "import"
    /\ IF ImportAccepts(keyCalls[c].bytes)
         THEN /\ sig' = [sig EXCEPT !.serverPublicKey = ImportEd25519(keyCalls[c].bytes)]
              /\ keyCalls' = [keyCalls EXCEPT
                     ![c].pc = IF keyCalls[c].via = "update" THEN "outer" ELSE "resolved"]
         ELSE /\ keyCalls' = [keyCalls EXCEPT ![c].pc = "rejected", ![c].err = "ImportError"]
              /\ sig' = [sig EXCEPT !.serverPublicKey = NullKey]
    /\ UNCHANGED <<op, held, keyOps, codec, kxVars, lifeVars>>

\* initializeServerKey that stores its key only when no call issued after
\* it has stored one.
ImportKeyResume_ordered(c) ==
    /\ keyCalls[c].pc = "import"
    /\ IF ImportAccepts(keyCalls[c].bytes)
         THEN /\ sig' = IF \E d \in KeyCalls : d > c /\ keyCalls[d].pc \in {"outer", "resolved"}
                          THEN sig
                          ELSE [sig EXCEPT !.serverPublicKey = ImportEd25519(keyCalls[c].bytes)]
              /\ keyCalls' = [keyCalls EXCEPT
                     ![c].pc = IF keyCalls[c].via = "update" THEN "outer" ELSE "resolved"]
         ELSE /\ keyCalls' = [keyCalls EXCEPT ![c].pc = "rejected", ![c].err = "ImportError"]
              /\ UNCHANGED sig
    /\ UNCHANGED <<op, held, keyOps, codec, kxVars, lifeVars>>

\* initializeServerKey resumes from importKey: this.serverPublicKey = ...
\* and the call returns (updateServerKey is then still awaiting it), or the
\* provider's rejection propagates.
ImportKeyResume(c) ==
    /\ keyCalls[c].pc = "import"
    /\ IF ImportAccepts(keyCalls[c].bytes)
         THEN /\ sig' = [sig EXCEPT !.serverPublicKey = ImportEd25519(keyCalls[c].bytes)]
              /\ keyCalls' = [keyCalls EXCEPT
                     ![c].pc = IF keyCalls[c].via = "update" THEN "outer" ELSE "resolved"]
         ELSE /\ keyCalls' = [keyCalls EXCEPT ![c].pc = "rejected", ![c].err = "ImportError"]
              /\ UNCHANGED sig
    /\ UNCHANGED <<op, held, keyOps, codec, kxVars, lifeVars>>

\* updateServerKey resumes from `await this.initializeServerKey(...)`.
UpdateServerKeyResume(c) ==
    /\ keyCalls[c].pc = "outer"
    /\ keyCalls' = [keyCalls EXCEPT ![c].pc = "resolved"]
    /\ UNCHANGED <<sig, op, held, keyOps, codec, kxVars, lifeVars>>

\* The message the remote party signed.
SignedMessage == [str |-> TRUE, val |-> <<104, 233>>]

\* The signature the remote party made over SignedMessage with its key s.
ServerSignature(s) == SignEd25519(s, PlainBytes(SignedMessage))

\* The observed call.  name: the method; sigArg, data: the signatureBytes
\* and data verify / verifyWithKey are given; signer: the key that made
\* sigArg; keyArg: the
\* publicKeyBytes of verifyWithKey; key: the key handed to the provider's
\* verify; signKey: the keypair handed to sign / exportKey; called: a
\* provider call was made; hadSubtle, hadKeypair, hadServerKey, seen: the
\* instance and the settled key calls when the call was issued.
IdleOp ==
    [pc |-> "idle", name |-> "sign", data |-> SignedMessage, signer |-> 0,
     sigArg |-> NullKey, keyArg |-> <<>>, key |-> NullKey, signKey |-> 0, result |-> FALSE,
     signature |-> NullKey, text |-> <<>>, err |-> "", called |-> FALSE,
     hadSubtle |-> FALSE, hadKeypair |-> FALSE, hadServerKey |-> FALSE, seen |-> {}]

\* The observed call with what it finds when it is issued.
IssuedOp(name) ==
    [IdleOp EXCEPT !.name = name, !.hadSubtle = sig.subtle,
                   !.hadKeypair = (sig.keypair # 0),
                   !.hadServerKey = ServerKeyImported, !.seen = SettledKeyCalls]

\* The guard of sign and getPublicKey, and the guard of verify.
SigNotInitialized_remote ==
    ~sig.subtle \/ sig.keypair = 0 \/ sig.serverPublicKey = NullKey

SigNotInitialized == ~sig.subtle \/ sig.keypair = 0

ServerKeyNotInitialized_subtle == ~sig.subtle

ServerKeyNotInitialized == ~sig.subtle \/ sig.serverPublicKey = NullKey

\* sign(data) up to its await: the guard, then the provider's sign is
\* called with this.keypair.privateKey.
SignCall(d) ==
    /\ op.pc = "idle"
    /\ op' = [IssuedOp("sign") EXCEPT
                !.data = d,
                !.pc = IF SigNotInitialized THEN "rejected" ELSE "sign",
                !.err = IF SigNotInitialized THEN "SignatureNotInitialized" ELSE "",
                !.called = ~SigNotInitialized,
                !.signKey = sig.keypair]
    /\ UNCHANGED <<sig, keyCalls, held, keyOps, codec, kxVars, lifeVars>>

\* sign that signs no data.
SignResume_empty ==
    /\ op.pc = "sign"
    /\ op' = [op EXCEPT !.pc = "resolved", !.signature = SignEd25519(op.signKey, <<>>)]
    /\ UNCHANGED <<sig, keyCalls, held, keyOps, codec, kxVars, lifeVars>>

\* Resumes from the provider's sign: return the signature bytes.
SignResume ==
    /\ op.pc = "sign"
    /\ op' = [op EXCEPT !.pc = "resolved",
                        !.signature = SignEd25519(op.signKey, PlainBytes(op.data))]
    /\ UNCHANGED <<sig, keyCalls, held, keyOps, codec, kxVars, lifeVars>>

\* getPublicKey() up to its await: the guard, then exportKey is called with
\* this.keypair.publicKey.
GetPublicKeyCall ==
    /\ op.pc = "idle"
    /\ op' = [IssuedOp("getPublicKey") EXCEPT
                !.pc = IF SigNotInitialized THEN "rejected" ELSE "export",
                !.err = IF SigNotInitialized THEN "SignatureNotInitialized" ELSE "",
                !.called = ~SigNotInitialized,
                !.signKey = sig.keypair]
    /\ keyOps' = IF SigNotInitialized THEN keyOps ELSE keyOps \cup {ExportEd25519Op}
    /\ UNCHANGED <<sig, keyCalls, held, codec, kxVars, lifeVars>>

\* Resumes from exportKey: return byteArrayToBase64(publicKeyBytes).
GetPublicKeyResume ==
    /\ op.pc = "export"
    /\ op' = [op EXCEPT !.pc = "resolved",
                        !.text = ByteArrayToBase64(ExportRaw(op.signKey))]
    /\ UNCHANGED <<sig, keyCalls, held, keyOps, codec, kxVars, lifeVars>>

\* verify(signatureBytes, data) up to its await: the guard, then the
\* provider's verify is called with this.serverPublicKey.
Verify(sg, d) ==
    /\ op.pc = "idle"
    /\ op' = [IssuedOp("verify") EXCEPT
                !.signer = sg.key, !.sigArg = sg, !.data = d,
                !.pc = IF ServerKeyNotInitialized THEN "rejected" ELSE "verify",
                !.err = IF ServerKeyNotInitialized THEN "ServerKeyNotInitialized" ELSE "",
                !.called = ~ServerKeyNotInitialized,
                !.key = sig.serverPublicKey]
    /\ UNCHANGED <<sig, keyCalls, held, keyOps, codec, kxVars, lifeVars>>

\* verify given a signature of the remote party.
VerifyCall(s, d) == Verify(ServerSignature(s), d)

\* verifyWithKey(publicKeyBytes, signatureBytes, data) up to its first
\* await: the capability check, then importKey is called.
VerifyWithKey(kb, sg, d) ==
    /\ op.pc = "idle"
    /\ op' = [IssuedOp("verifyWithKey") EXCEPT
                !.signer = sg.key, !.sigArg = sg, !.data = d, !.keyArg = kb,
                !.pc = IF sig.subtle THEN "import" ELSE "rejected",
                !.err = IF sig.subtle THEN "" ELSE "CryptoNotInitialized"]
    /\ keyOps' = IF sig.subtle THEN keyOps \cup {ImportEd25519Op} ELSE keyOps
    /\ UNCHANGED <<sig, keyCalls, held, codec, kxVars, lifeVars>>

\* verifyWithKey given a signature of the remote party.
VerifyWithKeyCall(kb, s, d) == VerifyWithKey(kb, ServerSignature(s), d)

\* verifyWithKey that stores the key it imported.
VerifyWithKeyImported_stores ==
    /\ op.pc = "import"
    /\ IF ImportAccepts(op.keyArg)
         THEN /\ op' = [op EXCEPT !.pc = "verify", !.called = TRUE,
                                  !.key = ImportEd25519(op.keyArg)]
              /\ sig' = [sig EXCEPT !.serverPublicKey = ImportEd25519(op.keyArg)]
         ELSE /\ op' = [op EXCEPT !.pc = "rejected", !.err = "ImportError"]
              /\ UNCHANGED sig
    /\ UNCHANGED <<keyCalls, held, keyOps, codec, kxVars, lifeVars>>

\* verifyWithKey resumes from importKey: the provider's verify is called
\* with the imported key, or the provider's rejection propagates.
VerifyWithKeyImported ==
    /\ op.pc = "import"
    /\ IF ImportAccepts(op.keyArg)
         THEN op' = [op EXCEPT !.pc = "verify", !.called = TRUE,
                               !.key = ImportEd25519(op.keyArg)]
         ELSE op' = [op EXCEPT !.pc = "rejected", !.err = "ImportError"]
    /\ UNCHANGED <<sig, keyCalls, held, keyOps, codec, kxVars, lifeVars>>

\* What the provider's verify resolves to for the observed call.
\* verify that reads this.serverPublicKey when the provider answers.
Verified_current == VerifyEd25519(sig.serverPublicKey, op.sigArg, PlainBytes(op.data))

Verified == VerifyEd25519(op.key, op.sigArg, PlainBytes(op.data))

\* verify that throws when the signature is not valid.
VerifyResume_throws ==
    /\ op.pc = "verify"
    /\ IF Verified
         THEN op' = [op EXCEPT !.pc = "resolved", !.result = TRUE]
         ELSE op' = [op EXCEPT !.pc = "rejected", !.err = "InvalidSignature"]
    /\ UNCHANGED <<sig, keyCalls, held, keyOps, codec, kxVars, lifeVars>>

\* verify / verifyWithKey resume from the provider's verify: return its
\* boolean.
VerifyResume ==
    /\ op.pc = "verify"
    /\ op' = [op EXCEPT !.pc = "resolved", !.result = Verified]
    /\ UNCHANGED <<sig, keyCalls, held, keyOps, codec, kxVars, lifeVars>>

\* init() of the returned instance resumes from `await import('crypto')`:
\* this.subtle is set and the provider's generateKey is called.
SigSubtleArrives ==
    /\ ~sig.subtle
    /\ sig' = [sig EXCEPT !.subtle = TRUE]
    /\ keyOps' = keyOps \cup {GenerateEd25519Op}
    /\ UNCHANGED <<keyCalls, op, held, codec, kxVars, lifeVars>>

\* init() of the returned instance resumes from the provider's generateKey:
\* this.keypair is set.
SigKeypairArrives ==
    /\ sig.subtle
    /\ sig.keypair = 0
    /\ sig' = [sig EXCEPT !.keypair = 1]
    /\ UNCHANGED <<keyCalls, op, held, keyOps, codec, kxVars, lifeVars>>

\* The raw public keys a caller can pass to verifyWithKey: a server key, or
\* bytes that are no key.
PublicKeyArgs == {ExportRaw(k) : k \in ServerSigningKeys} \cup {<<>>}

\* The steps of the initializeServerKey / updateServerKey calls in the
\* slots cc, and of the instance's own init().
KeyCallNext(cc) ==
    \/ \E c \in cc, text \in ServerKeyTexts, via \in {"init", "update"} :
           InitializeServerKeyCall(c, text, via)
    \/ \E c \in cc : ImportKeyResume(c)
    \/ \E c \in cc : UpdateServerKeyResume(c)
    \/ SigSubtleArrives
    \/ SigKeypairArrives

\* The steps of an observed verify call.
VerifyNext ==
    \/ \E s \in ServerSigningKeys, d \in Plaintexts : VerifyCall(s, d)
    \/ VerifyResume

\* The steps of an observed sign, getPublicKey or verifyWithKey call.
OpNext ==
    \/ \E d \in Plaintexts : SignCall(d)
    \/ SignResume
    \/ GetPublicKeyCall
    \/ GetPublicKeyResume
    \/ \E kb \in PublicKeyArgs, s \in ServerSigningKeys, d \in Plaintexts :
           VerifyWithKeyCall(kb, s, d)
    \/ VerifyWithKeyImported

\* The caller holds nothing yet.  signed: the data given to the sign call
\* that returned signature; text: what getPublicKey returned.
NothingHeld == [signature |-> NullKey, signed |-> SignedMessage, text |-> <<>>]

\* The caller keeps what sign / getPublicKey returned and is free to make
\* its next call.
KeepResult ==
    /\ op.pc = "resolved"
    /\ op.name \in {"sign", "getPublicKey"}
    /\ held' = IF op.name = "sign"
                 THEN [held EXCEPT !.signature = op.signature, !.signed = op.data]
                 ELSE [held EXCEPT !.text = op.text]
    /\ op' = IdleOp
    /\ UNCHANGED <<sig, keyCalls, keyOps, codec, kxVars, lifeVars>>

\* The signatures and public keys the caller holds.
HeldSignatures == {held.signature} \ {NullKey}

HeldKeyTexts == {held.text} \ {<<>>}

\* No conversion helper has been called.  fn: the helper; arg, ret, err:
\* its argument, what it returned, the error it threw; chain, from: the
\* argument is what the previous call returned ("bytes": byteArrayToBase64,
\* "bigint": bigIntToBase64), and from is the argument of that call.
NoCodecCall ==
    [fn |-> "", arg |-> <<>>, ret |-> <<>>, err |-> "", chain |-> "", from |-> <<>>]

\* No Signature call has been made, no provider call, no helper call.
SigQuiet ==
    /\ sig = NewSignature(FALSE, 0)
    /\ keyCalls = [c \in KeyCalls |-> IdleKeyCall]
    /\ op = IdleOp
    /\ held = NothingHeld
    /\ keyOps = {}
    /\ codec = NoCodecCall

\* The instance getInstance() returned, at any stage of its init().
SigInit ==
    /\ sig \in {NewSignature(FALSE, 0), NewSignature(TRUE, 0), NewSignature(TRUE, 1)}
    /\ keyCalls = [c \in KeyCalls |-> IdleKeyCall]
    /\ op = IdleOp
    /\ held = NothingHeld
    /\ keyOps = IF sig.subtle THEN {GenerateEd25519Op} ELSE {}
    /\ codec = NoCodecCall

\* ------------------------------------------------- conversion helpers (calls)

\* Length of a byte array over SampleBytes given to byteArrayToBase64
MaxBytes == 4

\* Length of a byte array filled with one value (new Uint8Array(n).fill(v))
MaxFill == 16

\* 16-bit limbs of a bigint given to bigIntToBase64
MaxLimbs == 5

\* Bytes of a uint64: new ArrayBuffer(8).
Uint64Bytes == 8

\* 16-bit limbs of a uint64.
Uint64Limbs == Uint64Bytes \div 2

SampleBytes == {0, 1, 127, 128, 255}

\* The byte arrays tried: the empty array, every single byte, short arrays
\* of sample bytes, arrays filled with one value.
ByteInputs ==
    {<<b>> : b \in 0..255}
        \cup UNION {[1..k -> SampleBytes] : k \in 0..MaxBytes}
        \cup {[i \in 1..k |-> v] : k \in 0..MaxFill, v \in SampleBytes}

\* A bigint is its sign and its magnitude in 16-bit limbs, least significant
\* first, without leading zero limbs (zero has none).
SampleLimbs == {0, 1, 258, 65535}

BigInts ==
    {[neg |-> sgn, mag |-> m] :
        sgn \in BOOLEAN,
        m \in {q \in UNION {[1..k -> SampleLimbs] : k \in 0..MaxLimbs} :
                  Len(q) = 0 \/ q[Len(q)] # 0}}
      \ {[neg |-> TRUE, mag |-> <<>>]}

\* The j-th limb of n, zero beyond its magnitude.
Limb(n, j) == IF j <= Len(n.mag) THEN n.mag[j] ELSE 0

\* n < 0n || n > 0xFFFFFFFFFFFFFFFFn
OutOfUint64Range(n) == n.neg \/ Len(n.mag) > Uint64Limbs

\* view.setBigUint64(0, n, true): least significant byte first.
SetBigUint64_le(n) ==
    [i \in 1..Uint64Bytes |->
        IF (i - 1) % 2 = 0 THEN Limb(n, ((i - 1) \div 2) + 1) % 256
        ELSE Limb(n, ((i - 1) \div 2) + 1) \div 256]

\* view.setBigUint64(0, n, false): the eight bytes of n, most significant
\* first.
SetBigUint64(n) ==
    [i \in 1..Uint64Bytes |->
        IF (Uint64Bytes - i) % 2 = 0 THEN Limb(n, ((Uint64Bytes - i) \div 2) + 1) % 256
        ELSE Limb(n, ((Uint64Bytes - i) \div 2) + 1) \div 256]

\* A magnitude without its leading zero limbs.
RECURSIVE Normalized(_)
Normalized(m) ==
    IF Len(m) = 0 THEN m
    ELSE IF m[Len(m)] = 0 THEN Normalized(SubSeq(m, 1, Len(m) - 1))
    ELSE m

\* view.getBigUint64(0, true): least significant byte first.
GetBigUint64_le(bytes) ==
    [neg |-> FALSE,
     mag |-> Normalized([j \in 1..Uint64Limbs |->
                            bytes[(2 * j) - 1] + (256 * bytes[2 * j])])]

\* view.getBigUint64(0, false): the value of the first eight bytes, most
\* significant first.
GetBigUint64(bytes) ==
    [neg |-> FALSE,
     mag |-> Normalized([j \in 1..Uint64Limbs |->
                            bytes[Uint64Bytes - (2 * (j - 1))]
                                + (256 * bytes[Uint64Bytes - (2 * (j - 1)) - 1])])]

\* What a helper call comes to: a returned value or a thrown error.
Returned(v) == [err |-> "", ret |-> v]

Thrown(e) == [err |-> e, ret |-> <<>>]

\* bigIntToBase64(n)
BigIntToBase64(n) ==
    IF OutOfUint64Range(n) THEN Thrown("RangeError")
    ELSE Returned(ByteArrayToBase64(SetBigUint64(n)))

\* bytes.length < 8
NotUint64Length_short(bytes) == Len(bytes) < Uint64Bytes

\* bytes.length !== 8
NotUint64Length(bytes) == Len(bytes) # Uint64Bytes

\* base64ToBigInt(b64)
Base64ToBigInt(b64) ==
    IF Len(b64) = 0 THEN Thrown("EmptyBase64String")
    ELSE IF NotUint64Length(Base64StringToByteArr(b64)) THEN Thrown("Expected8Bytes")
    ELSE Returned(GetBigUint64(Base64StringToByteArr(b64)))

\* Limbs of a JS number given to numberToBase64 or to the uint32 helpers
MaxNumberLimbs == 3

\* a > b for two magnitudes in limbs
RECURSIVE MagGreater(_, _)
MagGreater(a, b) ==
    IF Len(a) # Len(b) THEN Len(a) > Len(b)
    ELSE IF Len(a) = 0 THEN FALSE
    ELSE IF a[Len(a)] # b[Len(b)] THEN a[Len(a)] > b[Len(b)]
    ELSE MagGreater(SubSeq(a, 1, Len(a) - 1), SubSeq(b, 1, Len(b) - 1))

\* x > y for two bigints
BigIntGreater(x, y) ==
    IF x.neg # y.neg THEN y.neg
    ELSE IF x.neg THEN MagGreater(y.mag, x.mag)
    ELSE MagGreater(x.mag, y.mag)

\* A JS number (a double): an integer of magnitude mag, a fraction (mag plus
\* one half), NaN or an infinity; neg is its sign bit, so -0 is a number.
JsNumber(kind, neg, mag) == [kind |-> kind, neg |-> neg, mag |-> mag]

\* Number.MAX_SAFE_INTEGER = 2^53 - 1
MaxSafeInteger == JsNumber("integer", FALSE, <<65535, 65535, 65535, 31>>)

\* 0xFFFFFFFF
MaxUint32 == JsNumber("integer", FALSE, <<65535, 65535>>)

\* The index of the lowest limb of m that is not zero
LowestLimb(m) == CHOOSE j \in 1..Len(m) : m[j] # 0 /\ \A k \in 1..(j - 1) : m[k] = 0

\* An integer a double holds exactly: at most 53 significant bits.
IsDouble(m) ==
    \/ Len(m) = 0
    \/ Len(m) - LowestLimb(m) + 1 <= 3
    \/ Len(m) - LowestLimb(m) + 1 = 4 /\ m[Len(m)] < 32

NumberLimbs == SampleLimbs \cup {31, 32}

\* The magnitudes tried: short ones, and the ones around 2^32, 2^53 and 2^64.
NumberMags ==
    {m \in UNION {[1..k -> NumberLimbs] : k \in 0..MaxNumberLimbs} :
        (Len(m) = 0 \/ m[Len(m)] # 0) /\ IsDouble(m)}
      \cup {MaxSafeInteger.mag, <<0, 0, 0, 32>>, <<65534, 65535, 65535, 31>>,
            <<0, 0, 0, 65535>>, <<0, 0, 0, 0, 1>>}

\* The numbers tried.  A fraction has fewer than 2^52 in front of its half.
Numbers ==
    {JsNumber("integer", sgn, m) : sgn \in BOOLEAN, m \in NumberMags}
        \cup {JsNumber("fraction", sgn, m) :
                 sgn \in BOOLEAN, m \in {q \in NumberMags : Len(q) <= 3}}
        \cup {JsNumber("Infinity", sgn, <<>>) : sgn \in BOOLEAN}
        \cup {JsNumber("NaN", FALSE, <<>>)}

\* num < 0
NumberNegative(num) ==
    /\ num.kind # "NaN"
    /\ num.neg
    /\ ~(num.kind = "integer" /\ Len(num.mag) = 0)

\* num > max, for an integer max
NumberAbove(num, max) ==
    /\ num.kind # "NaN"
    /\ ~num.neg
    /\ \/ num.kind = "Infinity"
       \/ num.kind = "integer" /\ MagGreater(num.mag, max.mag)
       \/ num.kind = "fraction" /\ ~MagGreater(max.mag, num.mag)

\* Number.isInteger(num)
IsInteger(num) == num.kind = "integer"

\* BigInt(num), num an integer
BigIntOf(num) == [neg |-> num.neg /\ Len(num.mag) > 0, mag |-> num.mag]

\* Number(n), n a bigint within the safe integers
NumberOf(n) == JsNumber("integer", n.neg, n.mag)

\* a === b for two numbers
StrictEquals(a, b) ==
    /\ a.kind # "NaN" /\ b.kind # "NaN"
    /\ a.kind = b.kind /\ a.mag = b.mag
    /\ (a.neg = b.neg \/ (a.kind = "integer" /\ Len(a.mag) = 0))

\* num > 0xFFFFFFFFFFFFFFFF in place of num > Number.MAX_SAFE_INTEGER
NotSafeInteger_uint64(num) ==
    NumberNegative(num) \/ (num.kind # "NaN" /\ ~num.neg /\ (num.kind = "Infinity" \/ Len(num.mag) > Uint64Limbs))
        \/ ~IsInteger(num)

\* num < 0 || num > Number.MAX_SAFE_INTEGER || !Number.isInteger(num)
NotSafeInteger(num) ==
    NumberNegative(num) \/ NumberAbove(num, MaxSafeInteger) \/ ~IsInteger(num)

\* numberToBase64(num)
NumberToBase64(num) ==
    IF NotSafeInteger(num) THEN Thrown("RangeError")
    ELSE BigIntToBase64(BigIntOf(num))

\* base64ToNumber(b64)
Base64ToNumber(b64) ==
    LET bigIntValue == Base64ToBigInt(b64)
    IN  IF bigIntValue.err # "" THEN bigIntValue
        ELSE IF BigIntGreater(bigIntValue.ret, BigIntOf(MaxSafeInteger))
             THEN Thrown("RangeError")
        ELSE Returned(NumberOf(bigIntValue.ret))

\* Bytes of a uint32: new Uint8Array(4).
Uint32Bytes == 4

\* num > Number.MAX_SAFE_INTEGER in place of num > 0xFFFFFFFF
NotUint32_safe(num) ==
    ~IsInteger(num) \/ NumberNegative(num) \/ NumberAbove(num, MaxSafeInteger)

\* !Number.isInteger(num) || num < 0 || num > 0xFFFFFFFF
NotUint32(num) ==
    ~IsInteger(num) \/ NumberNegative(num) \/ NumberAbove(num, MaxUint32)

\* view.setUint32(0, num, false): the four bytes of num, most significant
\* first.
SetUint32(num) ==
    [i \in 1..Uint32Bytes |->
        IF (Uint32Bytes - i) % 2 = 0 THEN Limb(num, ((Uint32Bytes - i) \div 2) + 1) % 256
        ELSE Limb(num, ((Uint32Bytes - i) \div 2) + 1) \div 256]

\* uint32ToBytes(num)
Uint32ToBytes(num) ==
    IF NotUint32(num) THEN Thrown("Error") ELSE Returned(SetUint32(num))

\* 2^k
RECURSIVE Pow2(_)
Pow2(k) == IF k = 0 THEN 1 ELSE 2 * Pow2(k - 1)

\* num >>> s for s from 1 to 31: the low 32 bits of num shifted right.
UnsignedShiftRight(num, s) ==
    IF s >= 16 THEN Limb(num, 2) \div Pow2(s - 16)
    ELSE (Limb(num, 2) * Pow2(16 - s)) + (Limb(num, 1) \div Pow2(s))

\* uint32ToBase64(num)
Uint32ToBase64(num) ==
    IF NotUint32(num) THEN Thrown("Number must be a valid uint32")
    ELSE Returned(ByteArrayToBase64(
             <<UnsignedShiftRight(num, 24) % 256,
               UnsignedShiftRight(num, 16) % 256,
               UnsignedShiftRight(num, 8) % 256,
               Limb(num, 1) % 256>>))

\* 2^32 - m for a magnitude m of 1 to 2^32 - 1
TwoTo32Minus(m) ==
    LET lo == IF Len(m) >= 1 THEN m[1] ELSE 0
        hi == IF Len(m) >= 2 THEN m[2] ELSE 0
    IN  Normalized(IF lo = 0 THEN <<0, 65536 - hi>> ELSE <<65536 - lo, 65535 - hi>>)

\* bytes[0] << 24 | bytes[1] << 16 | bytes[2] << 8 | bytes[3]: an int32,
\* negative when the top bit of bytes[0] is set.
ShiftOr(bytes) ==
    LET bits == Normalized(<<(bytes[3] * 256) + bytes[4], (bytes[1] * 256) + bytes[2]>>)
    IN  IF bytes[1] >= 128 THEN JsNumber("integer", TRUE, TwoTo32Minus(bits))
        ELSE JsNumber("integer", FALSE, bits)

\* The int32 itself, without >>> 0
ToUint32_signed(x) == x

\* x >>> 0 for an int32 x
ToUint32(x) ==
    IF x.neg THEN JsNumber("integer", FALSE, TwoTo32Minus(x.mag)) ELSE x

\* base64ToUint32(b64)
Base64ToUint32(b64) ==
    IF Len(Base64StringToByteArr(b64)) # Uint32Bytes THEN Thrown("Expected4Bytes")
    ELSE Returned(ToUint32(ShiftOr(Base64StringToByteArr(b64))))

\* Length of a destination buffer given to copyToBuffer
MaxDest == 3

\* Length of a source given to copyToBuffer
MaxSource == 3

\* The destination buffers tried: new Uint8Array(n), and a buffer whose
\* bytes differ from one another and from every source's.
DestBuffers ==
    {[i \in 1..n |-> 0] : n \in 0..MaxDest} \cup {[i \in 1..n |-> 200 + i] : n \in 0..MaxDest}

\* The code units of the strings tried: 'A', '|' and the euro sign.
SampleCodeUnits == {65, 124, 8364}

\* The sources tried: strings and byte arrays.
Sources ==
    {[type |-> "string", data |-> d] :
        d \in UNION {[1..k -> SampleCodeUnits] : k \in 0..MaxSource}}
      \cup {[type |-> "Uint8Array", data |-> d] :
               d \in UNION {[1..k -> {1, 255}] : k \in 0..MaxSource}}

\* dest[index] = value on a Uint8Array: the value modulo 256 is stored.
SetByte(dest, index, value) == [dest EXCEPT ![index + 1] = value % 256]

\* What copyToBuffer comes to: the error thrown or the offset returned, and
\* the destination as the call leaves it.
Copied(err, offset, dest) == [err |-> err, ret |-> [offset |-> offset, dest |-> dest]]

\* for (let i = 0; i < source.length; i++) { ... dest[offset++] =
\* source.charCodeAt(i) }, from i on
RECURSIVE CopyString(_, _, _, _)
CopyString(dest, offset, source, i) ==
    IF i >= Len(source) THEN Copied("", offset, dest)
    ELSE IF offset >= Len(dest) THEN Copied("BufferOverflow", offset, dest)
    ELSE CopyString(SetByte(dest, offset, source[i + 1]), offset + 1, source, i + 1)

\* for (const byte of source) dest[offset++] = byte, from i on
RECURSIVE CopyBytes(_, _, _, _)
CopyBytes(dest, offset, source, i) ==
    IF i >= Len(source) THEN Copied("", offset, dest)
    ELSE CopyBytes(SetByte(dest, offset, source[i + 1]), offset + 1, source, i + 1)

\* copyToBuffer(dest, offset, source)
CopyToBuffer(dest, offset, source) ==
    IF offset < 0 \/ offset >= Len(dest) THEN Copied("OffsetOutOfBounds", offset, dest)
    ELSE IF source.type = "string" THEN CopyString(dest, offset, source.data, 0)
    ELSE IF offset + Len(source.data) > Len(dest) THEN Copied("BufferOverflow", offset, dest)
    ELSE CopyBytes(dest, offset, source.data, 0)

\* A call of a helper: codec becomes the record of the call.
CodecCall(fn, arg, out, chain, from) ==
    /\ codec' = [fn |-> fn, arg |-> arg, ret |-> out.ret, err |-> out.err,
                 chain |-> chain, from |-> from]
    /\ UNCHANGED <<lifeVars, kxVars, sigVars, keyOps>>

\* byteArrayToBase64(b)
ByteArrayToBase64Call(b) ==
    /\ codec.fn = ""
    /\ CodecCall("byteArrayToBase64", b, Returned(ByteArrayToBase64(b)), "", <<>>)

\* base64StringToByteArr(byteArrayToBase64(b))
Base64StringToByteArrCall ==
    /\ codec.fn = "byteArrayToBase64"
    /\ CodecCall("base64StringToByteArr", codec.ret,
                 Returned(Base64StringToByteArr(codec.ret)), "bytes", codec.arg)

\* bigIntToBase64(n)
BigIntToBase64Call(n) ==
    /\ codec.fn = ""
    /\ CodecCall("bigIntToBase64", n, BigIntToBase64(n), "", <<>>)

\* base64ToBigInt(bigIntToBase64(n)) / base64ToBigInt(byteArrayToBase64(b))
Base64ToBigIntCall ==
    /\ \/ codec.fn = "byteArrayToBase64"
       \/ codec.fn = "bigIntToBase64" /\ codec.err = ""
    /\ CodecCall("base64ToBigInt", codec.ret, Base64ToBigInt(codec.ret),
                 IF codec.fn = "bigIntToBase64" THEN "bigint" ELSE "bytes", codec.arg)

\* numberToBase64(num)
NumberToBase64Call(num) ==
    /\ codec.fn = ""
    /\ CodecCall("numberToBase64", num, NumberToBase64(num), "", <<>>)

\* base64ToNumber(numberToBase64(num)) / base64ToNumber(bigIntToBase64(n)) /
\* base64ToNumber(byteArrayToBase64(b))
Base64ToNumberCall ==
    /\ \/ codec.fn = "byteArrayToBase64"
       \/ codec.fn \in {"bigIntToBase64", "numberToBase64"} /\ codec.err = ""
    /\ CodecCall("base64ToNumber", codec.ret, Base64ToNumber(codec.ret),
                 CASE codec.fn = "numberToBase64" -> "number"
                   [] codec.fn = "bigIntToBase64" -> "bigint"
                   [] OTHER -> "bytes",
                 codec.arg)

\* uint32ToBytes(num)
Uint32ToBytesCall(num) ==
    /\ codec.fn = ""
    /\ CodecCall("uint32ToBytes", num, Uint32ToBytes(num), "", <<>>)

\* uint32ToBase64(num)
Uint32ToBase64Call(num) ==
    /\ codec.fn = ""
    /\ CodecCall("uint32ToBase64", num, Uint32ToBase64(num), "", <<>>)

\* base64ToUint32(uint32ToBase64(num)) / base64ToUint32(byteArrayToBase64(b))
Base64ToUint32Call ==
    /\ \/ codec.fn = "byteArrayToBase64"
       \/ codec.fn = "uint32ToBase64" /\ codec.err = ""
    /\ CodecCall("base64ToUint32", codec.ret, Base64ToUint32(codec.ret),
                 IF codec.fn = "uint32ToBase64" THEN "uint32" ELSE "bytes", codec.arg)

\* copyToBuffer(dest, offset, source)
CopyToBufferCall(dest, offset, source) ==
    /\ codec.fn = ""
    /\ CodecCall("copyToBuffer", [dest |-> dest, offset |-> offset, source |-> source],
                 CopyToBuffer(dest, offset, source), "", <<>>)

CodecNext ==
    \/ \E b \in ByteInputs : ByteArrayToBase64Call(b)
    \/ Base64StringToByteArrCall
    \/ \E n \in BigInts : BigIntToBase64Call(n)
    \/ Base64ToBigIntCall
    \/ \E num \in Numbers : NumberToBase64Call(num)
    \/ Base64ToNumberCall
    \/ \E num \in Numbers : Uint32ToBytesCall(num)
    \/ \E num \in Numbers : Uint32ToBase64Call(num)
    \/ Base64ToUint32Call
    \/ \E dest \in DestBuffers, offset \in (0 - 1)..(MaxDest + 1), source \in Sources :
           CopyToBufferCall(dest, offset, source)

\* ---------------------------------------------------------- specifications

vars == <<lifeVars, kxVars, sigVars, keyOps, codec>>

\* The lifecycle variables while the handshake is explored, and the
\* KeyExchange variables while the lifecycle is explored.
LifeQuiet == LifeInit /\ cls = "KeyExchange" /\ env = "node"

KxQuiet == KxInit({}) /\ enc = IdleEncrypt /\ dec = IdleDecrypt

\* The singleton lifecycle of either component.
Init == LifeInit /\ KxQuiet /\ SigQuiet

Spec == Init /\ [][LifeNext]_vars

\* The handshake between two parties' instances.
KxNext == HandshakeNext(Parties, Handshakes)

KxStart == LifeQuiet /\ KxInit({}) /\ enc = IdleEncrypt /\ dec = IdleDecrypt /\ SigQuiet

SpecKx == KxStart /\ [][KxNext]_vars

\* One instance's session: handshakes, encrypt and decrypt.
SessionParties == {"A"}

SessionHandshakes == 1..MaxOverlap

SessionNext ==
    \/ HandshakeNext(SessionParties, SessionHandshakes)
    \/ \E p \in SessionParties : SubtleArrives(p)
    \/ EncDecNext(SessionParties)

SessionStart ==
    /\ LifeQuiet /\ KxInit(SessionParties) /\ enc = IdleEncrypt /\ dec = IdleDecrypt
    /\ SigQuiet

SpecSession == SessionStart /\ [][SessionNext]_vars

\* One instance's encrypt calls under the key of one handshake.
NonceHandshakes == {1}

NonceNext ==
    \/ HandshakeNext(SessionParties, NonceHandshakes)
    \/ \E p \in SessionParties, pt \in Plaintexts : EncryptCall(p, pt)
    \/ \E p \in SessionParties, pt \in Plaintexts : EncryptAgain(p, pt)
    \/ \E seed \in Seeds : EncryptRandom(seed)
    \/ EncryptResume

NonceStart == LifeQuiet /\ KxInit({}) /\ enc = IdleEncrypt /\ dec = IdleDecrypt /\ SigQuiet

SpecNonce == NonceStart /\ [][NonceNext]_vars

\* One instance decrypting what the remote party sends.
DecryptNext ==
    \/ HandshakeNext(SessionParties, SessionHandshakes)
    \/ \E p \in SessionParties, in \in PeerInputs : DecryptCall(p, in)
    \/ DecryptResume

DecryptStart == LifeQuiet /\ KxInit({}) /\ enc = IdleEncrypt /\ dec = IdleDecrypt /\ SigQuiet

SpecDecrypt == DecryptStart /\ [][DecryptNext]_vars

\* The Signature instance: one server-key call and one observed call of
\* any method.
SigKeyCalls == {1}

SigNext == KeyCallNext(SigKeyCalls) \/ VerifyNext \/ OpNext

SigStart ==
    /\ LifeInit /\ cls = "Signature" /\ env = "node"
    /\ KxQuiet
    /\ SigInit

SpecSig == SigStart /\ [][SigNext]_vars

\* The Signature instance: server-key calls, overlapping or in sequence,
\* and one observed verify call.
RotationNext == KeyCallNext(KeyCalls) \/ VerifyNext

RotationStart ==
    /\ LifeInit /\ cls = "Signature" /\ env = "node"
    /\ KxQuiet
    /\ SigInit

SpecRotation == RotationStart /\ [][RotationNext]_vars

\* The Signature instance and a caller that signs, asks for the public key
\* and verifies what it was given, one call after the other.
RoundTripNext ==
    \/ SigSubtleArrives
    \/ SigKeypairArrives
    \/ \E d \in Plaintexts : SignCall(d)
    \/ SignResume
    \/ GetPublicKeyCall
    \/ GetPublicKeyResume
    \/ KeepResult
    \/ \E text \in ServerKeyTexts \cup HeldKeyTexts : InitializeServerKeyCall(1, text, "init")
    \/ ImportKeyResume(1)
    \/ \E sg \in HeldSignatures, d \in Plaintexts : Verify(sg, d)
    \/ \E kb \in PublicKeyArgs \cup {Base64StringToByteArr(t) : t \in HeldKeyTexts},
          sg \in HeldSignatures, d \in Plaintexts : VerifyWithKey(kb, sg, d)
    \/ VerifyWithKeyImported
    \/ VerifyResume

RoundTripStart ==
    /\ LifeInit /\ cls = "Signature" /\ env = "node"
    /\ KxQuiet
    /\ SigInit

SpecRoundTrip == RoundTripStart /\ [][RoundTripNext]_vars

\* Every operation of the component a behaviour is about, called one after
\* the other: a call is issued when no call is awaiting a promise.  A
\* behaviour follows either the getInstance() calls or the calls on the
\* instance that getInstance() returned.
LiveCallers == {1, 2}

LiveHandshakes == {1}

LiveKeyCalls == {1}

LiveQuiet ==
    /\ \A c \in Callers : callers[c].pc \in {"idle", "resolved", "rejected"}
    /\ \A h \in Handshakes : ~InFlight(h)
    /\ Settled(enc) /\ Settled(dec)
    /\ \A c \in KeyCalls : keyCalls[c].pc \in {"idle", "resolved", "rejected"}
    /\ Settled(op)

\* No getInstance() call has been made.
LifeIdle == \A c \in Callers : callers[c].pc = "idle"

\* No call on the instance has been made.
InstanceIdle ==
    /\ \A h \in Handshakes : hs[h].pc = "idle"
    /\ enc.pc = "idle" /\ dec.pc = "idle"
    /\ \A c \in KeyCalls : keyCalls[c].pc = "idle"
    /\ op.pc = "idle"

\* A getInstance() call may be issued / a call on a KeyExchange instance /
\* a call on a Signature instance.
LifeTurn == LiveQuiet /\ InstanceIdle

KxTurn == LiveQuiet /\ LifeIdle /\ cls = "KeyExchange"

SigTurn == LiveQuiet /\ LifeIdle /\ cls = "Signature"

LiveNext ==
    \/ \E c \in LiveCallers : LifeTurn /\ GetInstanceFast(c)
    \/ \E c \in LiveCallers : LifeTurn /\ GetInstanceCall(c)
    \/ \E c \in LiveCallers : ImportDone(c)
    \/ \E c \in LiveCallers : GenKeyDone(c)
    \/ \E c \in LiveCallers : GetInstanceResume(c)
    \/ \E p \in SessionParties : KxTurn /\ SubtleArrives(p)
    \/ \E h \in LiveHandshakes, p \in SessionParties, r \in AllRemoteKeys :
           KxTurn /\ GenerateKeyCall(h, p, r)
    \/ \E h \in LiveHandshakes : GenerateKeyResume(h)
    \/ \E h \in LiveHandshakes : ExportResume(h)
    \/ \E h \in LiveHandshakes : TxKeyResume(h)
    \/ \E h \in LiveHandshakes : RxKeyResume(h)
    \/ \E p \in SessionParties, pt \in Plaintexts : KxTurn /\ EncryptCall(p, pt)
    \/ \E seed \in Seeds : EncryptRandom(seed)
    \/ EncryptResume
    \/ \E p \in SessionParties, in \in DecryptInputs : KxTurn /\ DecryptCall(p, in)
    \/ DecryptResume
    \/ SigTurn /\ SigSubtleArrives
    \/ SigTurn /\ SigKeypairArrives
    \/ \E c \in LiveKeyCalls, text \in ServerKeyTexts, via \in {"init", "update"} :
           SigTurn /\ InitializeServerKeyCall(c, text, via)
    \/ \E c \in LiveKeyCalls : ImportKeyResume(c)
    \/ \E c \in LiveKeyCalls : UpdateServerKeyResume(c)
    \/ \E d \in Plaintexts : SigTurn /\ SignCall(d)
    \/ SignResume
    \/ SigTurn /\ GetPublicKeyCall
    \/ GetPublicKeyResume
    \/ \E s \in ServerSigningKeys, d \in Plaintexts : SigTurn /\ VerifyCall(s, d)
    \/ \E kb \in PublicKeyArgs, s \in ServerSigningKeys, d \in Plaintexts :
           SigTurn /\ VerifyWithKeyCall(kb, s, d)
    \/ VerifyWithKeyImported
    \/ VerifyResume

LiveStart ==
    /\ LifeInit
    /\ KxInit(SessionParties) /\ enc = IdleEncrypt /\ dec = IdleDecrypt
    /\ IF cls = "Signature" THEN SigInit /\ kx["A"].subtle ELSE SigQuiet

\* Every promise an operation awaits settles, and the event loop then runs
\* the operation's continuation.
LiveFairness ==
    /\ \A c \in LiveCallers : WF_vars(ImportDone(c))
    /\ \A c \in LiveCallers : WF_vars(GenKeyDone(c))
    /\ \A c \in LiveCallers : WF_vars(GetInstanceResume(c))
    /\ \A h \in LiveHandshakes : WF_vars(GenerateKeyResume(h))
    /\ \A h \in LiveHandshakes : WF_vars(ExportResume(h))
    /\ \A h \in LiveHandshakes : WF_vars(TxKeyResume(h))
    /\ \A h \in LiveHandshakes : WF_vars(RxKeyResume(h))
    /\ WF_vars(\E seed \in Seeds : EncryptRandom(seed))
    /\ WF_vars(EncryptResume)
    /\ WF_vars(DecryptResume)
    /\ \A c \in LiveKeyCalls : WF_vars(ImportKeyResume(c))
    /\ \A c \in LiveKeyCalls : WF_vars(UpdateServerKeyResume(c))
    /\ WF_vars(SignResume)
    /\ WF_vars(GetPublicKeyResume)
    /\ WF_vars(VerifyWithKeyImported)
    /\ WF_vars(VerifyResume)

SpecLive == LiveStart /\ [][LiveNext]_vars /\ LiveFairness

\* Both components with overlapping calls: a behaviour follows either the
\* getInstance() calls or the calls on the instance that getInstance()
\* returned, handshakes and server-key calls overlapping one another and
\* the encrypt, decrypt and verify calls.
ForwardHandshakes == {1, 2}

ForwardKeyCalls == {1, 2}

ForwardKx == LifeIdle /\ cls = "KeyExchange"

ForwardSig == LifeIdle /\ cls = "Signature"

ForwardNext ==
    \/ \E c \in LiveCallers : InstanceIdle /\ GetInstanceFast(c)
    \/ \E c \in LiveCallers : InstanceIdle /\ GetInstanceCall(c)
    \/ \E c \in LiveCallers : ImportDone(c)
    \/ \E c \in LiveCallers : GenKeyDone(c)
    \/ \E c \in LiveCallers : GetInstanceResume(c)
    \/ \E p \in SessionParties : ForwardKx /\ SubtleArrives(p)
    \/ \E h \in ForwardHandshakes, p \in SessionParties, r \in AllRemoteKeys :
           ForwardKx /\ GenerateKeyCall(h, p, r)
    \/ \E h \in ForwardHandshakes : GenerateKeyResume(h)
    \/ \E h \in ForwardHandshakes : ExportResume(h)
    \/ \E h \in ForwardHandshakes : TxKeyResume(h)
    \/ \E h \in ForwardHandshakes : RxKeyResume(h)
    \/ \E p \in SessionParties, pt \in Plaintexts : ForwardKx /\ EncryptCall(p, pt)
    \/ \E seed \in Seeds : EncryptRandom(seed)
    \/ EncryptResume
    \/ \E p \in SessionParties, in \in DecryptInputs : ForwardKx /\ DecryptCall(p, in)
    \/ DecryptResume
    \/ ForwardSig /\ SigSubtleArrives
    \/ ForwardSig /\ SigKeypairArrives
    \/ \E c \in ForwardKeyCalls, text \in ServerKeyTexts, via \in {"init", "update"} :
           ForwardSig /\ InitializeServerKeyCall(c, text, via)
    \/ \E c \in ForwardKeyCalls : ImportKeyResume(c)
    \/ \E c \in ForwardKeyCalls : UpdateServerKeyResume(c)
    \/ \E s \in ServerSigningKeys, d \in Plaintexts : ForwardSig /\ VerifyCall(s, d)
    \/ VerifyResume

ForwardStart ==
    /\ LifeInit /\ env = "node"
    /\ KxInit(SessionParties) /\ enc = IdleEncrypt /\ dec = IdleDecrypt
    /\ IF cls = "Signature" THEN SigInit /\ kx["A"].subtle ELSE SigQuiet

SpecForward == ForwardStart /\ [][ForwardNext]_vars

\* The conversion helpers applied to the inputs tried.
CodecStart == LifeQuiet /\ KxQuiet /\ SigQuiet

SpecCodec == CodecStart /\ [][CodecNext]_vars

\* ------------------------------------------------------------------ claims

\* C1: all getInstance() calls issued before any call has resolved resolve
\* to the same instance object.
C1_SameInstance ==
    \A c1, c2 \in Callers :
        (Resolved(c1) /\ Resolved(c2) /\ callers[c1].early /\ callers[c2].early)
            => callers[c1].result = callers[c2].result

\* C1 witness: two overlapping calls, each of which constructed its own
\* object, have both resolved.
C1_Witness ==
    \E c1, c2 \in Callers :
        /\ c1 # c2 /\ Resolved(c1) /\ Resolved(c2)
        /\ callers[c1].early /\ callers[c2].early
        /\ callers[c1].mine # 0 /\ callers[c2].mine # 0
        /\ callers[c1].mine # callers[c2].mine
        /\ callers[c1].result = callers[c2].result

\* C2: however many getInstance() calls overlap before the first resolves,
\* and no initialization failing, initialization runs once: one object
\* constructed, one capability acquisition, at most one generateKey call.
C2_InitOnce ==
    (\A c \in Callers : ~Rejected(c))
        => (Len(objs) <= 1 /\ acquired <= 1 /\ genKeyCalls <= 1)

\* C3: the instance a caller receives has completed its initialization:
\* the capability handle is set and, for Signature, the keypair is set.
C3_ReturnedInitialized ==
    \A c \in Callers :
        Resolved(c) =>
            /\ ~CryptoNotInitialized(callers[c].result)
            /\ (cls = "Signature" => ~SignatureNotInitialized(callers[c].result))

\* The generateKey calls issued on p's instance, and the keypairs they
\* generated.
CallsOn(p) == {h \in Handshakes : hs[h].pc # "idle" /\ hs[h].party = p}

KeysOf(p) == {hs[h].kp : h \in CallsOn(p)} \ {0}

\* The call on p's instance that completed last.
LastDone(p) ==
    CHOOSE h \in CallsOn(p) : Done(h) /\ \A g \in CallsOn(p) : hs[g].doneAt <= hs[h].doneAt

\* C4: when A's instance ran generateKey with a public key of B's instance
\* and B's instance ran generateKey with a public key of A's instance, the
\* key A installed as TX is the key B installed as RX, and the key A
\* installed as RX is the key B installed as TX.
C4_HandshakeSymmetry ==
    \A h1, h2 \in Handshakes :
        ( /\ Done(h1) /\ Done(h2)
          /\ hs[h1].party # hs[h2].party
          /\ hs[h1].remote \in KeysOf(hs[h2].party)
          /\ hs[h2].remote \in KeysOf(hs[h1].party) )
        => (DerivedTx(h1) = DerivedRx(h2) /\ DerivedRx(h1) = DerivedTx(h2))

\* C5: in every state, txKey and rxKey of an instance are both absent or
\* both the keys of one and the same generateKey call.
C5_KeysArePair ==
    \A p \in Parties :
        \/ kx[p].txKey = NullKey /\ kx[p].rxKey = NullKey
        \/ \E h \in CallsOn(p) :
               /\ Done(h)
               /\ kx[p].txKey = DerivedTx(h)
               /\ kx[p].rxKey = DerivedRx(h)

\* C6: when two or more generateKey calls on one instance have all
\* resolved, the installed TX key and the installed RX key are both those of
\* the call that completed last.
C6_LastCompletedWins ==
    \A p \in Parties :
        (Cardinality(CallsOn(p)) >= 2 /\ \A h \in CallsOn(p) : Done(h))
            => /\ kx[p].txKey = DerivedTx(LastDone(p))
               /\ kx[p].rxKey = DerivedRx(LastDone(p))

\* C7: an encrypt call made when no generateKey call on the instance has
\* completed is rejected with the no-encryption-key error.
C7_EncryptNeedsCompletedHandshake ==
    (enc.pc # "idle" /\ ~enc.keyed) => (enc.pc = "rejected" /\ enc.err = "NoEncryptionKey")

\* C8: a decrypt call made when no generateKey call on the instance has
\* completed is rejected with the no-decryption-key error, and makes no
\* provider decrypt call.
C8_DecryptNeedsCompletedHandshake ==
    (dec.pc # "idle" /\ ~dec.keyed)
        => (dec.pc = "rejected" /\ dec.err = "NoDecryptionKey" /\ ~dec.called)

\* C8 witness: decrypt was rejected on an instance whose first generateKey
\* call has installed the TX key and is still awaiting the RX key.
C8_Witness ==
    /\ dec.pc = "rejected" /\ ~dec.keyed /\ dec.err = "NoDecryptionKey"
    /\ \E h \in CallsOn(dec.party) : hs[h].pc = "rx"
    /\ kx[dec.party].txKey # NullKey
    /\ ~Keyed(dec.party)

\* C9: after generateKey has resolved, decrypt of the envelope that encrypt
\* returned on the same instance resolves to the bytes given to encrypt.
C9_RoundTrip ==
    ( /\ dec.input = "envelope" /\ dec.pc \in {"resolved", "rejected"}
      /\ dec.party = enc.party /\ enc.keyed /\ dec.keyed )
    => (dec.pc = "resolved" /\ dec.out = PlainBytes(enc.plaintext))

\* C10: the provider's generateKey has been called once per generateKey
\* call that passed the capability check, the keypair of a call is no other
\* call's keypair, and a call resolves to the base64 text of the raw public
\* key of its own keypair.
C10_FreshKeypairPerCall ==
    /\ x25519Calls = Cardinality({h \in Handshakes : hs[h].pc \notin {"idle", "rejected"}})
    /\ \A h1, h2 \in Handshakes :
           (h1 # h2 /\ hs[h1].kp # 0) => hs[h1].kp # hs[h2].kp
    /\ \A h \in Handshakes :
           Done(h) => /\ hs[h].kp = hs[h].keyNo
                      /\ hs[h].publicKxKey = ByteArrayToBase64(ExportRaw(hs[h].kp))

\* C10 witness: two overlapping generateKey calls on one instance have both
\* resolved, each to its own public key.
C10_Witness ==
    \E h1, h2 \in Handshakes :
        /\ h1 # h2 /\ Done(h1) /\ Done(h2)
        /\ hs[h1].party = hs[h2].party
        /\ hs[h1].doneAt > hs[h2].doneAt /\ h1 < h2
        /\ hs[h1].publicKxKey # hs[h2].publicKxKey
        /\ x25519Calls = 2

\* C11: when a generateKey call returns, the instance's txKey is the key
\* derived from the call's shared secret with the zero salt and info
\* 'client-to-server' + the returned public key text, its rxKey is the key
\* derived with info 'server-to-client' + the same text, and the two info
\* strings differ.
C11_DerivationLabels ==
    [][\A h \in Handshakes :
          (hs[h].pc = "rx" /\ hs'[h].pc = "done") =>
              LET p == hs[h].party
                  returned == hs'[h].publicKxKey
                  secret == hs[h].sharedSecret
                  zeros == [i \in 1..SaltLen |-> 0]
              IN  /\ kx'[p].txKey = ImportAesKey(DeriveHkdf(
                         secret, TextEncode(ClientToServer \o returned), zeros))
                  /\ kx'[p].rxKey = ImportAesKey(DeriveHkdf(
                         secret, TextEncode(ServerToClient \o returned), zeros))
                  /\ TextEncode(ClientToServer \o returned)
                         # TextEncode(ServerToClient \o returned)]_vars

\* Each returned envelope carries 12 bytes that are what the random source
\* returned to that call, and its ciphertext was made with exactly them.
NonceIsDraw ==
    \A i \in 1..Len(sent) :
        /\ Len(sent[i].nonce) = NonceLen
        /\ sent[i].nonce = RandomBytes(sent[i].seed)
        /\ sent[i].ciphertext.iv = sent[i].nonce

\* C12 (as stated): each encrypt call returns the 12-byte nonce it drew and
\* used, and no two encrypt calls under the same TX key return the same
\* nonce.
C12_NoNonceReuse ==
    /\ NonceIsDraw
    /\ \A i, j \in 1..Len(sent) :
           (i # j /\ sent[i].ciphertext.key = sent[j].ciphertext.key)
               => sent[i].nonce # sent[j].nonce

\* C12 (amended): each encrypt call returns the 12-byte nonce it drew and
\* used, and two encrypt calls under the same TX key return the same nonce
\* only when the random source returned the same bytes to both.
C12_NonceIsDraw ==
    /\ NonceIsDraw
    /\ \A i, j \in 1..Len(sent) :
           (i # j /\ sent[i].ciphertext.key = sent[j].ciphertext.key
                  /\ sent[i].seed # sent[j].seed)
               => sent[i].nonce # sent[j].nonce

\* C12 witness: two encrypt calls under one TX key returned different
\* nonces, the second after a different draw.
C12_Witness ==
    /\ Len(sent) = 2
    /\ sent[1].ciphertext.key = sent[2].ciphertext.key
    /\ sent[1].seed # sent[2].seed
    /\ sent[1].nonce # sent[2].nonce

\* C13: when the provider's decryption does not authenticate, decrypt
\* rejects with the provider's error and yields no bytes.
C13_DecryptFailsClosed ==
    ( /\ dec.called /\ dec.pc \in {"resolved", "rejected"}
      /\ ~AesGcmAuthentic(dec.key, DecryptNonce, DecryptCiphertext) )
    => (dec.pc = "rejected" /\ dec.err = "OperationError" /\ dec.out = <<>>)

\* C13 witness: decrypt rejected a tampered message of the remote party
\* while holding the very key the message was encrypted under.
C13_Witness ==
    /\ dec.pc = "rejected" /\ dec.called /\ dec.input = "tampered"
    /\ dec.key = DerivedRx(dec.from)
    /\ dec.out = <<>>

\* C14: a generateKey call on an instance without capability handle is
\* rejected with the not-initialized error, makes no provider call and
\* leaves keypair, txKey and rxKey as they were.
C14_NotInitializedRejects ==
    [][\A h \in Handshakes :
          (hs[h].pc = "idle" /\ hs'[h].pc # "idle" /\ ~kx[hs'[h].party].subtle) =>
              /\ hs'[h].pc = "rejected"
              /\ hs'[h].err = "CryptoNotInitialized"
              /\ x25519Calls' = x25519Calls
              /\ kx' = kx]_vars

\* C14 witness: a generateKey call was rejected as not initialized, and a
\* later call on the same instance, its handle now present, completed.
C14_Witness ==
    \E h1, h2 \in Handshakes :
        /\ hs[h1].pc = "rejected" /\ hs[h1].err = "CryptoNotInitialized"
        /\ hs[h1].kp = 0 /\ hs[h1].keyNo = 0
        /\ Done(h2) /\ hs[h2].party = hs[h1].party
        /\ x25519Calls = 1

\* The key a server-key call imports.
KeyOfCall(c) == ImportEd25519(Base64StringToByteArr(keyCalls[c].text))

\* C15: when updateServerKey(K2), called after initializeServerKey(K1) had
\* resolved and after every other server-key call had settled, has resolved,
\* a verify call issued from then on is checked against K2 only: it yields
\* true exactly for a signature valid under K2.  The slot holds one key or
\* none.
C15_Rotation ==
    /\ sig.serverPublicKey \in
           {NullKey} \cup {ImportEd25519(ExportRaw(k)) : k \in ServerSigningKeys}
    /\ \A c1, c2 \in KeyCalls :
           ( /\ keyCalls[c1].via = "init" /\ keyCalls[c1].pc = "resolved"
             /\ keyCalls[c2].via = "update" /\ keyCalls[c2].pc = "resolved"
             /\ c1 \in keyCalls[c2].seen
             /\ \A c3 \in KeyCalls \ {c2} :
                    keyCalls[c3].pc # "idle" => c3 \in keyCalls[c2].seen
             /\ op.name = "verify" /\ op.pc # "idle" /\ c2 \in op.seen )
           => /\ op.called
              /\ op.key = KeyOfCall(c2)
              /\ op.pc = "resolved" =>
                     op.result = ( /\ ExportRaw(op.signer) = keyCalls[c2].bytes
                                   /\ PlainBytes(op.data) = PlainBytes(SignedMessage) )

\* C15 witness: after initializeServerKey(K1) and then updateServerKey(K2),
\* verify of a signature made with K1 over the signed data resolved to false.
C15_Witness ==
    \E c1, c2 \in KeyCalls :
        /\ keyCalls[c1].via = "init" /\ keyCalls[c1].pc = "resolved"
        /\ keyCalls[c2].via = "update" /\ keyCalls[c2].pc = "resolved"
        /\ c1 \in keyCalls[c2].seen /\ c2 \in op.seen
        /\ keyCalls[c1].text # keyCalls[c2].text
        /\ op.name = "verify" /\ op.pc = "resolved"
        /\ ExportRaw(op.signer) = keyCalls[c1].bytes
        /\ PlainBytes(op.data) = PlainBytes(SignedMessage)
        /\ op.result = FALSE

\* C16: a verify call issued when no initializeServerKey call, direct or
\* through updateServerKey, has completed successfully is rejected with the
\* server-key-not-initialized error and makes no provider call.
C16_VerifyNeedsServerKey ==
    (op.name = "verify" /\ op.pc # "idle" /\ ~op.hadServerKey)
        => (op.pc = "rejected" /\ op.err = "ServerKeyNotInitialized" /\ ~op.called)

\* C16 witness: verify was rejected on an instance with its handle present
\* on which a server-key call had already failed in the provider's import.
C16_Witness ==
    /\ op.name = "verify" /\ op.pc = "rejected" /\ op.hadSubtle /\ ~op.hadServerKey
    /\ \E c \in op.seen : keyCalls[c].pc = "rejected" /\ keyCalls[c].err = "ImportError"

\* C17: a verify or verifyWithKey call that reached the provider's verify
\* resolves to the provider's boolean (false for an invalid signature); a
\* rejected call is one that lacked the capability handle or the server key,
\* or whose key the provider refused to import.
C17_InvalidIsFalse ==
    (op.name \in {"verify", "verifyWithKey"} /\ op.pc \in {"resolved", "rejected"})
    => /\ op.called => (op.pc = "resolved" /\ op.result = Verified)
       /\ op.pc = "rejected" =>
              /\ ~op.called
              /\ IF op.name = "verify"
                   THEN /\ op.err = "ServerKeyNotInitialized"
                        /\ (~op.hadSubtle \/ ~op.hadServerKey)
                   ELSE \/ op.err = "CryptoNotInitialized" /\ ~op.hadSubtle
                        \/ op.err = "ImportError" /\ ~ImportAccepts(op.keyArg)

\* C17 witness: with a server key stored, verify of a signature made with
\* another key resolved to false.
C17_Witness ==
    /\ op.name = "verify" /\ op.pc = "resolved" /\ op.result = FALSE
    /\ sig.serverPublicKey # NullKey
    /\ sig.serverPublicKey.raw # ExportRaw(op.signer)

\* C18: no step of a verifyWithKey call changes the stored server key; the
\* call is rejected as not initialized exactly when the capability handle
\* was absent, and with the handle present and a key the provider imports it
\* resolves, whether or not a server key is stored.
C18_VerifyWithKeyFrame ==
    [][/\ (op' # op /\ op'.name = "verifyWithKey")
              => sig'.serverPublicKey = sig.serverPublicKey
       /\ (op'.name = "verifyWithKey" /\ op'.pc \in {"resolved", "rejected"})
              => /\ (op'.err = "CryptoNotInitialized") <=> ~op'.hadSubtle
                 /\ (op'.hadSubtle /\ ImportAccepts(op'.keyArg)) => op'.pc = "resolved"]_vars

\* C18 witness: verifyWithKey resolved to true on an instance on which no
\* server key has been stored.
C18_Witness ==
    /\ op.name = "verifyWithKey" /\ op.pc = "resolved" /\ op.result = TRUE
    /\ ~op.hadServerKey
    /\ sig.serverPublicKey = NullKey

\* C19: the Signature component's keypair is generated once: the provider's
\* generateKey is called at most once and at most one keypair ever exists.
C19_KeypairOnce ==
    cls = "Signature" =>
        /\ genKeyCalls <= 1
        /\ Cardinality({objs[o].keypair : o \in 1..Len(objs)} \ {0}) <= 1

\* C20: a sign or getPublicKey call issued with handle and keypair present
\* makes its provider call and resolves to the signature over the data, or
\* the base64 text of the public key, of that keypair, with or without a
\* server key; issued with either absent it is rejected with the
\* not-initialized error and makes no provider call.
C20_SignNeedsKeypair ==
    (op.name \in {"sign", "getPublicKey"} /\ op.pc # "idle")
    => IF op.hadSubtle /\ op.hadKeypair
         THEN /\ op.called /\ op.pc # "rejected"
              /\ op.signKey = sig.keypair
              /\ op.pc = "resolved" =>
                     IF op.name = "sign"
                       THEN op.signature = SignEd25519(sig.keypair, PlainBytes(op.data))
                       ELSE op.text = ByteArrayToBase64(ExportRaw(sig.keypair))
         ELSE /\ op.pc = "rejected" /\ op.err = "SignatureNotInitialized"
              /\ ~op.called

\* C20 witness: sign resolved on an instance on which no server-key call
\* was ever made.
C20_Witness ==
    /\ op.name = "sign" /\ op.pc = "resolved" /\ op.signature # NullKey
    /\ sig.serverPublicKey = NullKey
    /\ \A c \in KeyCalls : keyCalls[c].pc = "idle"

\* C21: a signature that sign(m) returned verifies as true against the
\* signer's own public key as getPublicKey returned it (handed to
\* verifyWithKey, or stored with initializeServerKey and used by verify)
\* and the same message m, and verifies as false against any other message
\* or any other key.
C21_SignVerifyRoundTrip ==
    ( /\ op.name \in {"verify", "verifyWithKey"} /\ op.pc = "resolved"
      /\ held.signature # NullKey /\ held.text # <<>>
      /\ op.sigArg = held.signature )
    => op.result = ( /\ op.key = ImportEd25519(Base64StringToByteArr(held.text))
                     /\ PlainBytes(op.data) = PlainBytes(held.signed) )

\* C21 witness: verify returned true for the caller's own signature after
\* the text getPublicKey returned was stored with initializeServerKey.
C21_Witness ==
    /\ op.name = "verify" /\ op.pc = "resolved" /\ op.result
    /\ held.signature # NullKey /\ op.sigArg = held.signature
    /\ held.text # <<>>
    /\ op.key = ImportEd25519(Base64StringToByteArr(held.text))
    /\ sig.serverPublicKey = op.key

\* C22: when the provider's importKey fails during initializeServerKey /
\* updateServerKey, the call rejects with the provider's error and the
\* stored remote key, or its absence, is left as it was; a verify call is
\* checked against the key that is stored.
C22_ImportFailureKeepsKey ==
    [][/\ \A c \in KeyCalls :
             (keyCalls[c].pc = "import" /\ keyCalls'[c].pc = "rejected") =>
                 /\ keyCalls'[c].err = "ImportError"
                 /\ sig'.serverPublicKey = sig.serverPublicKey
       /\ (op.pc = "idle" /\ op'.pc # "idle" /\ op'.name = "verify") =>
              op'.key = sig.serverPublicKey]_vars

\* C22 witness: a server-key call made after another had stored its key was
\* rejected by the provider, and a verify call issued after that rejection
\* returned true under the key stored before.
C22_Witness ==
    \E c1, c2 \in KeyCalls :
        /\ keyCalls[c1].pc = "resolved" /\ c1 \in keyCalls[c2].seen
        /\ keyCalls[c2].pc = "rejected" /\ keyCalls[c2].err = "ImportError"
        /\ sig.serverPublicKey = KeyOfCall(c1)
        /\ op.name = "verify" /\ op.pc = "resolved" /\ c2 \in op.seen
        /\ op.key = KeyOfCall(c1) /\ op.result

\* C23: when keypair generation fails during Signature initialization,
\* getInstance rejects with the provider's error, that call does not mark
\* the component initialized, and a getInstance call made afterwards does
\* not return the object whose initialization failed.
C23_FailedInitNotReturned ==
    [][/\ \A c \in Callers :
             (callers[c].pc = "genkey" /\ callers'[c].pc = "rejected") =>
                 /\ callers'[c].err = "ProviderError"
                 /\ initialized' = initialized
       /\ \A c1, c2 \in Callers :
             ( /\ Rejected(c1) /\ callers[c1].err = "ProviderError"
               /\ callers[c2].pc = "idle" /\ callers'[c2].pc = "resolved" )
             => callers'[c2].result # callers[c1].mine]_vars

\* C25: a getInstance() call made once some call has resolved resolves at
\* once to the instance every resolved call returned, and constructs no
\* object, acquires no capability handle and makes no generateKey call.
C25_LaterCallsSameInstance ==
    [][\A c \in Callers :
          (AnyResolved /\ callers[c].pc = "idle" /\ callers'[c].pc # "idle") =>
              /\ callers'[c].pc = "resolved"
              /\ \A c1 \in Callers : Resolved(c1) => callers'[c].result = callers[c1].result
              /\ objs' = objs /\ instance' = instance
              /\ genKeyCalls' = genKeyCalls /\ acquired' = acquired]_vars

\* C25 witness: a call made after an earlier call had resolved returned the
\* instance of that call, in a behaviour where two objects were constructed.
C25_Witness ==
    \E c1, c2 \in Callers :
        /\ Resolved(c1) /\ callers[c1].early /\ callers[c1].mine # 0
        /\ Resolved(c2) /\ ~callers[c2].early /\ callers[c2].mine = 0
        /\ callers[c2].result = callers[c1].result
        /\ Len(objs) = 2

\* C24: every generateKey and importKey call made on the provider by
\* KeyExchange and Signature passes extractable = false, and exportKey is
\* only called on the public half of the instance's keypair.
C24_NothingExtractable ==
    \A k \in keyOps :
        /\ k.method \in {"generateKey", "importKey", "exportKey"}
        /\ k.method \in {"generateKey", "importKey"} => ~k.extractable
        /\ k.method = "exportKey" => k.half = "publicKey"

\* C24 witness: a KeyExchange instance has generated a keypair, exported
\* its public key and imported the HKDF and AES keys of a handshake that
\* completed.
C24_Witness ==
    /\ {GenerateX25519Op, ExportX25519Op, ImportHkdfOp, ImportAesOp} \subseteq keyOps
    /\ \E h \in Handshakes : Done(h)

\* An operation that is awaiting a promise / that has resolved or rejected.
Awaiting(pc) == pc \notin {"idle", "resolved", "rejected", "done", "failed"}

Finished(pc) == pc \in {"resolved", "rejected", "done", "failed"}

\* C26: every operation that has been called eventually resolves or
\* rejects, given that every promise it awaits settles; an operation that
\* has finished makes no further step, and the provider's generateKey is
\* called only when a generateKey() call is issued, never again after a
\* failure.
C26_Terminates ==
    /\ \A c \in LiveCallers : Awaiting(callers[c].pc) ~> Finished(callers[c].pc)
    /\ \A h \in LiveHandshakes : Awaiting(hs[h].pc) ~> Finished(hs[h].pc)
    /\ Awaiting(enc.pc) ~> Finished(enc.pc)
    /\ Awaiting(dec.pc) ~> Finished(dec.pc)
    /\ \A c \in LiveKeyCalls : Awaiting(keyCalls[c].pc) ~> Finished(keyCalls[c].pc)
    /\ Awaiting(op.pc) ~> Finished(op.pc)
    /\ [][/\ \A c \in Callers : Finished(callers[c].pc) => callers'[c] = callers[c]
          /\ \A h \in Handshakes : Finished(hs[h].pc) => hs'[h] = hs[h]
          /\ Finished(enc.pc) => enc' = enc
          /\ Finished(dec.pc) => dec' = dec
          /\ \A c \in KeyCalls : Finished(keyCalls[c].pc) => keyCalls'[c] = keyCalls[c]
          /\ Finished(op.pc) => op' = op
          /\ x25519Calls' # x25519Calls =>
                 \E h \in Handshakes : hs[h].pc = "idle" /\ hs'[h].pc = "gen"]_vars

\* C26 witness: a generateKey() call has failed on a provider rejection
\* after one provider generateKey call, and an encrypt call made afterwards
\* has been rejected.
C26_Witness ==
    \E h \in Handshakes :
        /\ hs[h].pc = "failed" /\ hs[h].err = "ProviderError"
        /\ x25519Calls = 1
        /\ enc.pc = "rejected"

\* C27: base64StringToByteArr(byteArrayToBase64(b)) = b for every byte
\* array b, the empty array and every single byte among them, and the empty
\* array encodes to the empty string.
C27_Base64RoundTrip ==
    /\ (codec.fn = "base64StringToByteArr" /\ codec.chain = "bytes")
           => (codec.err = "" /\ codec.ret = codec.from)
    /\ (codec.fn = "byteArrayToBase64" /\ Len(codec.arg) = 0) => Len(codec.ret) = 0

\* C27 witness: the single byte 255, whose text is '/w==', has come back.
C27_Witness ==
    /\ codec.fn = "base64StringToByteArr" /\ codec.chain = "bytes"
    /\ codec.from = <<255>> /\ codec.arg = <<47, 119, 61, 61>>
    /\ codec.ret = <<255>>

\* C28: base64ToBigInt(bigIntToBase64(n)) = n for every n from 0 to
\* 2^64 - 1, and bigIntToBase64 throws a RangeError exactly for n < 0 and
\* for n > 2^64 - 1.
C28_BigIntRoundTrip ==
    /\ (codec.fn = "base64ToBigInt" /\ codec.chain = "bigint")
           => (codec.err = "" /\ codec.ret = codec.from)
    /\ codec.fn = "bigIntToBase64"
           => /\ (codec.arg.neg \/ Len(codec.arg.mag) > Uint64Limbs) => codec.err = "RangeError"
              /\ (~codec.arg.neg /\ Len(codec.arg.mag) <= Uint64Limbs) => codec.err = ""

\* C28 witness: 0x0102 0000 0000 0001 has come back from its text.
C28_Witness ==
    /\ codec.fn = "base64ToBigInt" /\ codec.chain = "bigint"
    /\ codec.from = [neg |-> FALSE, mag |-> <<1, 0, 0, 258>>]
    /\ codec.ret = codec.from

\* Byte k (0 the least significant) of n: floor(n / 256^k) mod 256.
ByteOf(n, k) ==
    IF k % 2 = 0 THEN Limb(n, (k \div 2) + 1) % 256 ELSE Limb(n, (k \div 2) + 1) \div 256

\* 256^k
RECURSIVE Pow256(_)
Pow256(k) == IF k = 0 THEN 1 ELSE 256 * Pow256(k - 1)

C30_EightBytesOnly ==
    (codec.fn = "base64ToBigInt" /\ codec.chain = "bytes") =>
        /\ Len(codec.from) = 0 => (Len(codec.arg) = 0 /\ codec.err = "EmptyBase64String")
        /\ Len(codec.from) \notin {0, 8} => codec.err = "Expected8Bytes"
        /\ Len(codec.from) = 8 => (codec.err = "" /\ SetBigUint64(codec.ret) = codec.from)

\* C30 witness: the text of sixteen bytes has been refused.
C30_Witness ==
    /\ codec.fn = "base64ToBigInt" /\ codec.chain = "bytes"
    /\ Len(codec.from) = 16
    /\ codec.err = "Expected8Bytes"

\* C31: numberToBase64 throws a RangeError for every negative, non-integer
\* or above-MAX_SAFE_INTEGER number and otherwise returns bigIntToBase64 of
\* the same value; base64ToNumber throws a RangeError whenever the decoded
\* uint64 is above MAX_SAFE_INTEGER; base64ToNumber(numberToBase64(n)) = n
\* for every integer n from 0 to MAX_SAFE_INTEGER.
C31_SafeIntegerCodec ==
    /\ codec.fn = "numberToBase64" =>
           LET num == codec.arg
               refused == \/ num.kind # "integer"
                          \/ num.neg /\ Len(num.mag) > 0
                          \/ MagGreater(num.mag, <<65535, 65535, 65535, 31>>)
           IN  /\ refused => codec.err = "RangeError"
               /\ ~refused =>
                      /\ codec.err = ""
                      /\ codec.ret = BigIntToBase64([neg |-> FALSE, mag |-> num.mag]).ret
                      /\ BigIntToBase64([neg |-> FALSE, mag |-> num.mag]).err = ""
    /\ (codec.fn = "base64ToNumber" /\ codec.chain = "bigint"
            /\ MagGreater(codec.from.mag, <<65535, 65535, 65535, 31>>))
           => codec.err = "RangeError"
    /\ (codec.fn = "base64ToNumber" /\ codec.chain = "bytes" /\ Len(codec.from) = 8
            /\ MagGreater(GetBigUint64(codec.from).mag, <<65535, 65535, 65535, 31>>))
           => codec.err = "RangeError"
    /\ (codec.fn = "base64ToNumber" /\ codec.chain = "number")
           => (codec.err = "" /\ StrictEquals(codec.ret, codec.from))

\* C31 witness: MAX_SAFE_INTEGER has come back from its text 'AB////////8='.
C31_Witness ==
    /\ codec.fn = "base64ToNumber" /\ codec.chain = "number"
    /\ codec.from = MaxSafeInteger
    /\ codec.arg = <<65, 66, 47, 47, 47, 47, 47, 47, 47, 47, 56, 61>>
    /\ codec.ret = MaxSafeInteger

\* C32: for every integer n from 0 to 2^32 - 1, base64ToUint32(
\* uint32ToBase64(n)) = n and uint32ToBase64(n) is the base64 text of
\* uint32ToBytes(n), the four bytes of n most significant first; both
\* encoders fail for n outside that range (0x100000000 among them) and for
\* a non-integer n; base64ToUint32 fails when the text does not decode to
\* four bytes.
C32_Uint32Codec ==
    LET inRange(n) == n.kind = "integer" /\ (~n.neg \/ Len(n.mag) = 0) /\ Len(n.mag) <= 2
        bigEndian(n) == [i \in 1..4 |-> ByteOf(n, 4 - i)]
    IN  /\ (codec.fn = "base64ToUint32" /\ codec.chain = "uint32")
               => (codec.err = "" /\ StrictEquals(codec.ret, codec.from))
        /\ codec.fn = "uint32ToBase64" =>
               IF inRange(codec.arg)
               THEN /\ codec.err = ""
                    /\ Uint32ToBytes(codec.arg) = Returned(bigEndian(codec.arg))
                    /\ codec.ret = ByteArrayToBase64(Uint32ToBytes(codec.arg).ret)
               ELSE codec.err # ""
        /\ codec.fn = "uint32ToBytes" =>
               IF inRange(codec.arg)
               THEN codec.err = "" /\ codec.ret = bigEndian(codec.arg)
               ELSE codec.err # ""
        /\ (codec.fn = "base64ToUint32" /\ codec.chain = "bytes" /\ Len(codec.from) # 4)
               => codec.err # ""

\* C32 witness: 0xFFFFFFFF has come back from its text '/////w=='.
C32_Witness ==
    /\ codec.fn = "base64ToUint32" /\ codec.chain = "uint32"
    /\ codec.from = MaxUint32
    /\ codec.arg = <<47, 47, 47, 47, 47, 119, 61, 61>>
    /\ codec.ret = MaxUint32

\* C33: copyToBuffer(dest, offset, source) with 0 <= offset and
\* offset + length(source) <= length(dest) writes the source's bytes, or the
\* code unit of each character, into dest[offset .. offset + length - 1],
\* leaves every other position of dest as it was and returns
\* offset + length(source); it fails when the offset is out of bounds or the
\* room from the offset on is smaller than the source.
C33_CopyWithinCapacity ==
    codec.fn = "copyToBuffer" =>
        LET dest == codec.arg.dest
            offset == codec.arg.offset
            source == codec.arg.source.data
        IN  /\ (0 <= offset /\ offset + Len(source) <= Len(dest)) =>
                   /\ codec.err = ""
                   /\ codec.ret.offset = offset + Len(source)
                   /\ Len(codec.ret.dest) = Len(dest)
                   /\ \A i \in 1..Len(dest) :
                          codec.ret.dest[i] =
                              IF offset < i /\ i <= offset + Len(source)
                              THEN source[i - offset]
                              ELSE dest[i]
            /\ (offset < 0 \/ offset > Len(dest) \/ Len(dest) - offset < Len(source))
                   => codec.err # ""

\* C40: whenever copyToBuffer fails, for a string source and for a
\* byte-array source, the destination buffer is as it was before the call.
C40_FailureLeavesDest ==
    (codec.fn = "copyToBuffer" /\ codec.err # "") => codec.ret.dest = codec.arg.dest

\* C34: both lifecycle state machines only move forward.  Once a KeyExchange
\* instance has both its TX key and its RX key, no step of any operation,
\* a failing generateKey, encrypt or decrypt among them, leaves it without
\* one of them; once a Signature instance has a remote key stored, no step
\* clears it; the capability handle of an object, once set, stays set.
C34_OnlyForward ==
    [][/\ \A p \in Parties :
             (kx[p].txKey # NullKey /\ kx[p].rxKey # NullKey)
                 => (kx'[p].txKey # NullKey /\ kx'[p].rxKey # NullKey)
       /\ sig.serverPublicKey # NullKey => sig'.serverPublicKey # NullKey
       /\ \A p \in Parties : kx[p].subtle => kx'[p].subtle
       /\ sig.subtle => sig'.subtle
       /\ \A o \in 1..Len(objs) : objs[o].subtle => (o <= Len(objs') /\ objs'[o].subtle)]_vars

\* C34 witness: on a keyed KeyExchange instance a later generateKey call has
\* failed at the provider and an encrypt call was made after that, the
\* instance still holding both keys; or on a Signature instance holding a
\* remote key a later server-key call was refused by the provider.
C34_Witness ==
    \/ \E h1, h2 \in Handshakes :
           /\ Done(h1) /\ hs[h2].pc = "failed" /\ hs[h1].doneAt > 0
           /\ kx["A"].subtle /\ kx["A"].txKey # NullKey /\ kx["A"].rxKey # NullKey
           /\ enc.pc = "resolved"
    \/ \E c1, c2 \in KeyCalls :
           /\ keyCalls[c1].pc = "resolved" /\ c1 \in keyCalls[c2].seen
           /\ keyCalls[c2].pc = "rejected"
           /\ sig.subtle /\ sig.serverPublicKey # NullKey

\* C35: for every generateKey call, calls that overlap other generateKey
\* calls on the same instance among them, the public key the call returns
\* and binds into the HKDF info is the public half of the keypair whose
\* private key the call gave to deriveBits for the keys it installs.
C35_OwnKeypair ==
    \A h \in Handshakes :
        hs[h].pc \in {"tx", "rx", "done"} =>
            /\ hs[h].publicKxKey = ByteArrayToBase64(ExportRaw(hs[h].priv))
            /\ hs[h].priv = hs[h].kp

\* C36: a generateKey call that fails at a provider step (key generation,
\* export, Diffie-Hellman derivation, HKDF or AEAD key import) has assigned
\* neither the TX key nor the RX key, so both are as they were before the
\* call.
C36_FailedCallInstallsNothing ==
    \A h \in Handshakes : hs[h].pc = "failed" => ~hs[h].txSet

\* C37: KeyExchange's getInstance generates no keypair, and the number of
\* X25519 keypairs an instance has asked the provider for is the number of
\* generateKey calls on it that passed the capability check; Signature's
\* getInstance has asked for its Ed25519 keypair, and the call's own init
\* has stored it, before the call resolves.
C37_KeypairPerHandshake ==
    /\ cls = "KeyExchange" =>
           /\ genKeyCalls = 0
           /\ \A o \in 1..Len(objs) : objs[o].keypair = 0
           /\ GenerateEd25519Op \notin keyOps
    /\ x25519Calls = Cardinality({h \in Handshakes : hs[h].pc \notin {"idle", "rejected"}})
    /\ GenerateX25519Op \in keyOps <=> x25519Calls > 0
    /\ x25519Calls = 0 => \A p \in Parties : kx[p].keypair = 0
    /\ cls = "Signature" =>
           \A c \in Callers :
               Resolved(c) =>
                   /\ genKeyCalls >= 1 /\ GenerateEd25519Op \in keyOps
                   /\ callers[c].mine # 0 => objs[callers[c].mine].keypair # 0

\* C37 witness: on one KeyExchange instance a generateKey call was refused
\* by the capability check and a later one completed, one keypair having
\* been asked for.
C37_Witness ==
    /\ cls = "KeyExchange" /\ genKeyCalls = 0
    /\ x25519Calls = 1
    /\ \E h1, h2 \in Handshakes :
           /\ hs[h1].pc = "rejected" /\ hs[h1].err = "CryptoNotInitialized"
           /\ hs[h2].pc = "done"

\* C38: when initializeServerKey / updateServerKey calls on one Signature
\* instance overlap, every successful completion of a provider import
\* stores that call's key and no other step changes the slot, so the key
\* stored once all have resolved is the key of the call whose import
\* completed last, whichever call was issued last; at every moment the slot
\* holds nothing or the key of one call whose import has completed.
C38_LastImportWins ==
    /\ [](\/ sig.serverPublicKey = NullKey
          \/ \E c \in KeyCalls :
                 /\ keyCalls[c].pc \in {"outer", "resolved"}
                 /\ sig.serverPublicKey = KeyOfCall(c))
    /\ [][/\ \A c \in KeyCalls :
                (keyCalls[c].pc = "import" /\ keyCalls'[c].pc \in {"outer", "resolved"})
                    => sig'.serverPublicKey = ImportEd25519(Base64StringToByteArr(keyCalls[c].text))
          /\ (\A c \in KeyCalls :
                  ~(keyCalls[c].pc = "import" /\ keyCalls'[c].pc \in {"outer", "resolved"}))
                 => sig'.serverPublicKey = sig.serverPublicKey]_vars

\* C38 witness: two overlapping server-key calls with different keys have
\* both resolved and the slot holds the key of the one issued first, whose
\* import completed last.
C38_Witness ==
    \E c1, c2 \in KeyCalls :
        /\ c1 < c2
        /\ keyCalls[c1].pc = "resolved" /\ keyCalls[c2].pc = "resolved"
        /\ c1 \notin keyCalls[c2].seen
        /\ KeyOfCall(c1) # KeyOfCall(c2)
        /\ sig.serverPublicKey = KeyOfCall(c1)
        /\ \A c \in KeyCalls : keyCalls[c].pc \in {"idle", "resolved"}

\* C39: a verify call is checked against the remote key that was stored
\* when verify was called: the call hands that key to the provider, and the
\* result it resolves to is the provider's answer under that key, whatever
\* key a rotation has stored while the call was awaiting the provider.
C39_VerifyKeyAtCall ==
    [][/\ (op.pc = "idle" /\ op'.pc = "verify" /\ op'.name = "verify")
              => (op'.key = sig.serverPublicKey /\ op'.key # NullKey)
       /\ (op.pc = "verify" /\ op.name = "verify")
              => /\ op'.key = op.key
                 /\ op'.pc = "resolved" =>
                        op'.result = /\ op.key = ImportEd25519(ExportRaw(op.signer))
                                     /\ PlainBytes(op.data) = PlainBytes(SignedMessage)]_vars

\* C39 witness: a verify call of a signature valid under the key stored
\* when it was called is awaiting the provider, and a server-key call that
\* had not settled when verify was called has since stored another key,
\* under which the signature is not valid.
C39_Witness ==
    /\ op.name = "verify" /\ op.pc = "verify"
    /\ VerifyEd25519(op.key, op.sigArg, PlainBytes(op.data))
    /\ \E c \in KeyCalls :
           /\ keyCalls[c].pc = "resolved" /\ c \notin op.seen
           /\ sig.serverPublicKey = KeyOfCall(c)
    /\ sig.serverPublicKey # op.key
    /\ ~VerifyEd25519(sig.serverPublicKey, op.sigArg, PlainBytes(op.data))

====
